---- MODULE Spec2Model ----
(***************************************************************************)
(* StudySphere: the in-memory data store (MemStorage, server/storage.ts)   *)
(* and the route handlers that drive it.                                   *)
(*                                                                         *)
(* A JavaScript Map is modelled as the sequence of its entries in          *)
(* insertion order; an entry is [key |-> k, val |-> v].  An entity is a    *)
(* record; an object spread {...a, ...b} is Spread(a, b).  The store is    *)
(* the record `storage` with one field per field of MemStorage.  Every     *)
(* store method is an operator from (storage, arguments, time) to          *)
(* [storage |-> the store afterwards, ret |-> the value returned], so that *)
(* a route handler is the composition of the store calls it makes.         *)
(***************************************************************************)
EXTENDS Integers, Sequences, FiniteSets, TLC

VARIABLES
    storage,    \* the MemStorage singleton: its Maps and its id counters
    clock,      \* the wall clock read by `new Date()`
    loop,       \* the event loop: calls and handlers suspended at an await
    last,       \* the last call made: [op, args, ret]
    hist        \* history of the calls made so far (not read by the program)

vars == <<storage, clock, loop, last, hist>>

(***************************************************************************)
(* Bounds of the model.                                                    *)
(***************************************************************************)
\* entities created in one run of the store-level specification
MaxEntities == 2
\* entities created in one run of the list specification
MaxListEntities == 2
\* entities created in one run of the study-group specification
MaxGroupEntities == 4
\* entities created in one run of the study-session specification
MaxSessionEntities == 4
\* entities created in one run of the specification of in-place writes
MaxAliasEntities == 2
\* entities created in one run of the activity specification
MaxActivityEntities == 5
\* the highest limit passed to an activity feed
MaxLimit == 3
\* entities created in one run of the specification of overlapping calls
MaxOverlapEntities == 2
\* calls suspended at one time
MaxInFlight == 2
\* users created in one run of the registration specification
MaxRegisterEntities == 3
\* activities created in one run of the activity-feed specification
MaxFeedEntities == 4
\* entities created in one run of the membership specification
MaxMemberEntities == 6
\* entities created in one run of the specification of the session route
MaxSessionRouteEntities == 6
\* entities created in one run of the specification of the vote routes
MaxVoteEntities == 3
\* entities created in one run of the specification of the creating requests
MaxCreatingEntities == 6
\* entities created in one run of the specification of ids and keys
MaxKeyEntities == 2
\* entities created in one run of the specification of store-assigned fields
MaxAssignedEntities == 3
\* entities created in one run of the specification of references
MaxReferenceEntities == 6
\* entities created in one run of the specification of unauthenticated requests
MaxGuestEntities == 6
\* the clock runs from 0 to MaxClock
MaxClock == 1
\* a downloads counter is incremented up to MaxDownloads
MaxDownloads == 2
\* a votes counter is kept within -MaxVotes..MaxVotes
MaxVotes == 1

(***************************************************************************)
(* JavaScript values.                                                      *)
(***************************************************************************)
\* `undefined`, the absent value
Undefined == [undefined |-> TRUE]

\* {...a, ...b}: the fields of a, overridden and extended by those of b
Spread(a, b) ==
    [k \in (DOMAIN a) \cup (DOMAIN b) |-> IF k \in DOMAIN b THEN b[k] ELSE a[k]]

\* a value of a JSON body: a number or a string, told apart as === tells them
\* apart, or undefined for a field the body lacks
Num(n) == [num |-> n]

Str(chars) == [str |-> chars]

(***************************************************************************)
(* Map<number, T>: entries in insertion order.                             *)
(***************************************************************************)
MapHas(m, k) == \E i \in DOMAIN m : m[i].key = k

MapIndex(m, k) == CHOOSE i \in DOMAIN m : m[i].key = k

\* Map.prototype.get
MapGet(m, k) == IF MapHas(m, k) THEN m[MapIndex(m, k)].val ELSE Undefined

\* a Map.set that moves an updated entry to the end of the iteration order
MapSetMoveToEnd(m, k, v) ==
    Append(SelectSeq(m, LAMBDA e : e.key # k), [key |-> k, val |-> v])

\* Map.prototype.set: an existing key keeps its position, a new key is appended
MapSet(m, k, v) ==
    IF MapHas(m, k)
    THEN [i \in DOMAIN m |-> IF m[i].key = k THEN [key |-> k, val |-> v] ELSE m[i]]
    ELSE Append(m, [key |-> k, val |-> v])

\* Map.prototype.delete: the map afterwards, and whether the key was present
MapDelete(m, k) ==
    [map |-> SelectSeq(m, LAMBDA e : e.key # k), ret |-> MapHas(m, k)]

\* Array.from(map.values())
MapValues(m) == [i \in DOMAIN m |-> m[i].val]

MapKeys(m) == [i \in DOMAIN m |-> m[i].key]

\* Array.prototype.find over the elements picked out by `hits`, a set of indexes:
\* the first of them, or undefined
FindFirst(arr, hits) ==
    IF hits = {} THEN Undefined ELSE arr[CHOOSE i \in hits : \A j \in hits : i <= j]

\* entity[key] === value, for a value that is not undefined: a field the entity
\* lacks reads as undefined and differs from the value
FieldEquals(entity, key, value) == key \in DOMAIN entity /\ entity[key] = value

\* Object.entries(filters).every(([key, value]) => entity[key] === value)
MatchesFilters(entity, filters) ==
    \A key \in DOMAIN filters : FieldEquals(entity, key, filters[key])

Range(seq) == {seq[i] : i \in DOMAIN seq}

\* Array.prototype.sort with the comparator (a, b) => key(a) - key(b), `keys`
\* holding the key of each element: ascending by key, and stable, elements of
\* equal key keeping their order
SortByKey(arr, keys) ==
    LET Rank(i) == Cardinality({j \in DOMAIN arr :
                                   keys[j] < keys[i] \/ (keys[j] = keys[i] /\ j < i)})
    IN [r \in DOMAIN arr |-> arr[CHOOSE i \in DOMAIN arr : Rank(i) = r - 1]]

(***************************************************************************)
(* Strings that are compared ignoring case (usernames, emails) are         *)
(* sequences of characters.                                                *)
(***************************************************************************)
UpperCaseLetters ==
    <<"A", "B", "C", "D", "E", "F", "G", "H", "I", "J", "K", "L", "M",
      "N", "O", "P", "Q", "R", "S", "T", "U", "V", "W", "X", "Y", "Z">>

LowerCaseLetters ==
    <<"a", "b", "c", "d", "e", "f", "g", "h", "i", "j", "k", "l", "m",
      "n", "o", "p", "q", "r", "s", "t", "u", "v", "w", "x", "y", "z">>

ToLowerChar(c) ==
    IF \E i \in DOMAIN UpperCaseLetters : UpperCaseLetters[i] = c
    THEN LowerCaseLetters[CHOOSE i \in DOMAIN UpperCaseLetters : UpperCaseLetters[i] = c]
    ELSE c

\* String.prototype.toLowerCase
ToLowerCase(str) == [i \in DOMAIN str |-> ToLowerChar(str[i])]

(***************************************************************************)
(* MemStorage.                                                             *)
(***************************************************************************)
\* constructor
NewMemStorage ==
    [users |-> <<>>, papers |-> <<>>, discussionPosts |-> <<>>,
     discussionReplies |-> <<>>, studyGroups |-> <<>>,
     studyGroupMembers |-> <<>>, studySessions |-> <<>>, activities |-> <<>>,
     currentUserId |-> 1, currentPaperId |-> 1, currentDiscussionPostId |-> 1,
     currentDiscussionReplyId |-> 1, currentStudyGroupId |-> 1,
     currentStudyGroupMemberId |-> 1, currentStudySessionId |-> 1,
     currentActivityId |-> 1]

\* ---- users ----
getUser(s, id) == MapGet(s.users, id)

\* a getUserByUsername that compares the usernames as they are written
getUserByUsernameExact(s, username) ==
    LET all == MapValues(s.users)
    IN FindFirst(all, {i \in DOMAIN all : all[i].username = username})

getUserByUsername(s, username) ==
    LET all == MapValues(s.users)
    IN FindFirst(all, {i \in DOMAIN all :
                           ToLowerCase(all[i].username) = ToLowerCase(username)})

getUserByEmail(s, email) ==
    LET all == MapValues(s.users)
    IN FindFirst(all, {i \in DOMAIN all :
                           ToLowerCase(all[i].email) = ToLowerCase(email)})

\* a createUser that lets the fields of its input override the ones it assigns
createUserInputWins(s, insertUser, now) ==
    LET id == s.currentUserId
        user == Spread([id |-> id, createdAt |-> now, points |-> 0], insertUser)
    IN [storage |-> [s EXCEPT !.currentUserId = id + 1,
                              !.users = MapSet(s.users, id, user)],
        ret |-> user]

createUser(s, insertUser, now) ==
    LET id == s.currentUserId
        user == Spread(insertUser, [id |-> id, createdAt |-> now, points |-> 0])
    IN [storage |-> [s EXCEPT !.currentUserId = id + 1,
                              !.users = MapSet(s.users, id, user)],
        ret |-> user]

updateUser(s, id, userData) ==
    LET user == getUser(s, id)
    IN IF user = Undefined
       THEN [storage |-> s, ret |-> Undefined]
       ELSE LET updatedUser == Spread(user, userData)
            IN [storage |-> [s EXCEPT !.users = MapSet(s.users, id, updatedUser)],
                ret |-> updatedUser]

\* ---- papers ----
\* a createPaper that reads the counter without advancing it
createPaperNoIncrement(s, paper, now) ==
    LET id == s.currentPaperId
        newPaper == Spread(paper, [id |-> id, uploadDate |-> now, downloads |-> 0])
    IN [storage |-> [s EXCEPT !.papers = MapSet(s.papers, id, newPaper)],
        ret |-> newPaper]

\* a createPaper that stores the paper under the key after its id
createPaperWrongKey(s, paper, now) ==
    LET id == s.currentPaperId
        newPaper == Spread(paper, [id |-> id, uploadDate |-> now, downloads |-> 0])
    IN [storage |-> [s EXCEPT !.currentPaperId = id + 1,
                              !.papers = MapSet(s.papers, id + 1, newPaper)],
        ret |-> newPaper]

createPaper(s, paper, now) ==
    LET id == s.currentPaperId
        newPaper == Spread(paper, [id |-> id, uploadDate |-> now, downloads |-> 0])
    IN [storage |-> [s EXCEPT !.currentPaperId = id + 1,
                              !.papers = MapSet(s.papers, id, newPaper)],
        ret |-> newPaper]

getPaper(s, id) == MapGet(s.papers, id)

\* a getPapers that keeps an entity as soon as one filter field matches
getPapersAnyField(s, filters) ==
    IF filters = Undefined
    THEN MapValues(s.papers)
    ELSE SelectSeq(MapValues(s.papers),
                   LAMBDA paper : \E key \in DOMAIN filters :
                                      FieldEquals(paper, key, filters[key]))

getPapers(s, filters) ==
    IF filters = Undefined
    THEN MapValues(s.papers)
    ELSE SelectSeq(MapValues(s.papers),
                   LAMBDA paper : MatchesFilters(paper, filters))

\* an incrementPaperDownloads that returns the updated copy without storing it
incrementPaperDownloadsNoStore(s, id) ==
    LET paper == getPaper(s, id)
    IN IF paper = Undefined
       THEN [storage |-> s, ret |-> Undefined]
       ELSE [storage |-> s, ret |-> Spread(paper, [downloads |-> paper.downloads + 1])]

\* incrementPaperDownloads from `const paper = await this.getPaper(id)` on: the
\* call reads the Map when it is made, and runs the rest, with the paper it read,
\* when the await resumes it
incrementPaperDownloadsResume(s, id, paper) ==
    IF paper = Undefined
    THEN [storage |-> s, ret |-> Undefined]
    ELSE LET updatedPaper == Spread(paper, [downloads |-> paper.downloads + 1])
         IN [storage |-> [s EXCEPT !.papers = MapSet(s.papers, id, updatedPaper)],
             ret |-> updatedPaper]

\* the call, resumed before any other call is made
incrementPaperDownloads(s, id) == incrementPaperDownloadsResume(s, id, getPaper(s, id))

\* ---- discussions ----
createDiscussionPost(s, post, now) ==
    LET id == s.currentDiscussionPostId
        newPost == Spread(post, [id |-> id, createdAt |-> now, updatedAt |-> now,
                                 votes |-> 0])
    IN [storage |-> [s EXCEPT !.currentDiscussionPostId = id + 1,
                              !.discussionPosts = MapSet(s.discussionPosts, id, newPost)],
        ret |-> newPost]

getDiscussionPost(s, id) == MapGet(s.discussionPosts, id)

getDiscussionPosts(s, filters) ==
    IF filters = Undefined
    THEN MapValues(s.discussionPosts)
    ELSE SelectSeq(MapValues(s.discussionPosts),
                   LAMBDA post : MatchesFilters(post, filters))

\* a createDiscussionReply that draws its id from the counter of the posts
createDiscussionReplyPostCounter(s, reply, now) ==
    LET id == s.currentDiscussionPostId
        newReply == Spread(reply, [id |-> id, createdAt |-> now, updatedAt |-> now,
                                   votes |-> 0])
    IN [storage |-> [s EXCEPT !.currentDiscussionPostId = id + 1,
                              !.discussionReplies =
                                  MapSet(s.discussionReplies, id, newReply)],
        ret |-> newReply]

createDiscussionReply(s, reply, now) ==
    LET id == s.currentDiscussionReplyId
        newReply == Spread(reply, [id |-> id, createdAt |-> now, updatedAt |-> now,
                                   votes |-> 0])
    IN [storage |-> [s EXCEPT !.currentDiscussionReplyId = id + 1,
                              !.discussionReplies =
                                  MapSet(s.discussionReplies, id, newReply)],
        ret |-> newReply]

getDiscussionReplies(s, postId) ==
    SelectSeq(MapValues(s.discussionReplies), LAMBDA reply : reply.postId = postId)

\* a voteDiscussionPost that keeps the votes at zero or above
voteDiscussionPostFloor(s, id, value) ==
    LET post == getDiscussionPost(s, id)
    IN IF post = Undefined
       THEN [storage |-> s, ret |-> Undefined]
       ELSE LET updatedPost ==
                    Spread(post, [votes |-> IF post.votes + value < 0
                                            THEN 0 ELSE post.votes + value])
            IN [storage |-> [s EXCEPT !.discussionPosts =
                                          MapSet(s.discussionPosts, id, updatedPost)],
                ret |-> updatedPost]

\* voteDiscussionPost from `const post = await this.getDiscussionPost(id)` on
voteDiscussionPostResume(s, id, value, post) ==
    IF post = Undefined
    THEN [storage |-> s, ret |-> Undefined]
    ELSE LET updatedPost == Spread(post, [votes |-> post.votes + value])
         IN [storage |-> [s EXCEPT !.discussionPosts =
                                       MapSet(s.discussionPosts, id, updatedPost)],
             ret |-> updatedPost]

\* the call, resumed before any other call is made
voteDiscussionPost(s, id, value) ==
    voteDiscussionPostResume(s, id, value, getDiscussionPost(s, id))

\* a voteDiscussionReply without the early return: an unknown id is stored
voteDiscussionReplyUpsert(s, id, value) ==
    LET reply == MapGet(s.discussionReplies, id)
        updatedReply == IF reply = Undefined
                        THEN [votes |-> value]
                        ELSE Spread(reply, [votes |-> reply.votes + value])
    IN [storage |-> [s EXCEPT !.discussionReplies =
                                  MapSet(s.discussionReplies, id, updatedReply)],
        ret |-> IF reply = Undefined THEN Undefined ELSE updatedReply]

voteDiscussionReply(s, id, value) ==
    LET reply == MapGet(s.discussionReplies, id)
    IN IF reply = Undefined
       THEN [storage |-> s, ret |-> Undefined]
       ELSE LET updatedReply == Spread(reply, [votes |-> reply.votes + value])
            IN [storage |-> [s EXCEPT !.discussionReplies =
                                          MapSet(s.discussionReplies, id, updatedReply)],
                ret |-> updatedReply]

\* ---- study groups ----
createStudyGroup(s, group, now) ==
    LET id == s.currentStudyGroupId
        newGroup == Spread(group, [id |-> id, createdAt |-> now])
    IN [storage |-> [s EXCEPT !.currentStudyGroupId = id + 1,
                              !.studyGroups = MapSet(s.studyGroups, id, newGroup)],
        ret |-> newGroup]

getStudyGroup(s, id) == MapGet(s.studyGroups, id)

getStudyGroups(s, filters) ==
    IF filters = Undefined
    THEN MapValues(s.studyGroups)
    ELSE SelectSeq(MapValues(s.studyGroups),
                   LAMBDA group : MatchesFilters(group, filters))

\* a getUserStudyGroups that returns the group of each membership row of the user
getUserStudyGroupsPerRow(s, userId) ==
    LET rows == SelectSeq(MapValues(s.studyGroupMembers),
                          LAMBDA member : member.userId = userId
                                          /\ MapHas(s.studyGroups, member.groupId))
    IN [i \in DOMAIN rows |-> MapGet(s.studyGroups, rows[i].groupId)]

getUserStudyGroups(s, userId) ==
    LET memberGroups ==
            {member.groupId : member \in
                {m \in Range(MapValues(s.studyGroupMembers)) : m.userId = userId}}
    IN SelectSeq(MapValues(s.studyGroups), LAMBDA group : group.id \in memberGroups)

\* ---- study group members ----
\* an addStudyGroupMember that numbers the new row after the highest stored row
addStudyGroupMemberMaxPlusOne(s, member, now) ==
    LET keys == Range(MapKeys(s.studyGroupMembers))
        id == IF keys = {} THEN 1 ELSE 1 + CHOOSE k \in keys : \A j \in keys : j <= k
        newMember == Spread(member, [id |-> id, joinedAt |-> now])
    IN [storage |-> [s EXCEPT !.currentStudyGroupMemberId = id + 1,
                              !.studyGroupMembers =
                                  MapSet(s.studyGroupMembers, id, newMember)],
        ret |-> newMember]

addStudyGroupMember(s, member, now) ==
    LET id == s.currentStudyGroupMemberId
        newMember == Spread(member, [id |-> id, joinedAt |-> now])
    IN [storage |-> [s EXCEPT !.currentStudyGroupMemberId = id + 1,
                              !.studyGroupMembers =
                                  MapSet(s.studyGroupMembers, id, newMember)],
        ret |-> newMember]

getStudyGroupMembers(s, groupId) ==
    SelectSeq(MapValues(s.studyGroupMembers), LAMBDA member : member.groupId = groupId)

\* a removeStudyGroupMember that deletes every row of the pair
removeStudyGroupMemberAll(s, groupId, userId) ==
    LET kept == SelectSeq(s.studyGroupMembers,
                          LAMBDA e : ~(e.val.groupId = groupId /\ e.val.userId = userId))
    IN [storage |-> [s EXCEPT !.studyGroupMembers = kept],
        ret |-> Len(kept) < Len(s.studyGroupMembers)]

\* a removeStudyGroupMember that looks for the user's first row in any group
removeStudyGroupMemberAnyGroup(s, groupId, userId) ==
    LET members == MapValues(s.studyGroupMembers)
        memberToDelete ==
            FindFirst(members, {i \in DOMAIN members : members[i].userId = userId})
    IN IF memberToDelete # Undefined
       THEN LET d == MapDelete(s.studyGroupMembers, memberToDelete.id)
            IN [storage |-> [s EXCEPT !.studyGroupMembers = d.map], ret |-> d.ret]
       ELSE [storage |-> s, ret |-> FALSE]

removeStudyGroupMember(s, groupId, userId) ==
    LET members == MapValues(s.studyGroupMembers)
        memberToDelete ==
            FindFirst(members,
                      {i \in DOMAIN members :
                           members[i].groupId = groupId /\ members[i].userId = userId})
    IN IF memberToDelete # Undefined
       THEN LET d == MapDelete(s.studyGroupMembers, memberToDelete.id)
            IN [storage |-> [s EXCEPT !.studyGroupMembers = d.map], ret |-> d.ret]
       ELSE [storage |-> s, ret |-> FALSE]

\* ---- study sessions ----
\* a createStudySession that keeps one session per group, dropping the earlier ones
createStudySessionOnePerGroup(s, session) ==
    LET id == s.currentStudySessionId
        newSession == Spread(session, [id |-> id])
        others == SelectSeq(s.studySessions, LAMBDA e : e.val.groupId # session.groupId)
    IN [storage |-> [s EXCEPT !.currentStudySessionId = id + 1,
                              !.studySessions = MapSet(others, id, newSession)],
        ret |-> newSession]

createStudySession(s, session) ==
    LET id == s.currentStudySessionId
        newSession == Spread(session, [id |-> id])
    IN [storage |-> [s EXCEPT !.currentStudySessionId = id + 1,
                              !.studySessions = MapSet(s.studySessions, id, newSession)],
        ret |-> newSession]

getStudySession(s, id) == MapGet(s.studySessions, id)

getStudySessions(s, groupId) ==
    SelectSeq(MapValues(s.studySessions), LAMBDA session : session.groupId = groupId)

\* the groupId of every membership row of the user
MemberGroupsOf(s, userId) ==
    {member.groupId : member \in
        {m \in Range(MapValues(s.studyGroupMembers)) : m.userId = userId}}

\* a getUpcomingStudySessions that keeps the sessions starting at `now` too
getUpcomingStudySessionsFromNow(s, userId, now) ==
    LET memberGroups == MemberGroupsOf(s, userId)
        kept == SelectSeq(MapValues(s.studySessions),
                          LAMBDA session : /\ session.groupId \in memberGroups
                                           /\ session.startTime >= now)
    IN SortByKey(kept, [i \in DOMAIN kept |-> kept[i].startTime])

\* a start time is the number of milliseconds new Date(startTime).getTime() yields
getUpcomingStudySessions(s, userId, now) ==
    LET memberGroups == MemberGroupsOf(s, userId)
        kept == SelectSeq(MapValues(s.studySessions),
                          LAMBDA session : /\ session.groupId \in memberGroups
                                           /\ session.startTime > now)
    IN SortByKey(kept, [i \in DOMAIN kept |-> kept[i].startTime])

\* ---- activities ----
\* a createActivity that does not advance the counter: each entry overwrites the last
createActivityNoIncrement(s, activity, now) ==
    LET id == s.currentActivityId
        newActivity == Spread(activity, [id |-> id, createdAt |-> now])
    IN [storage |-> [s EXCEPT !.activities = MapSet(s.activities, id, newActivity)],
        ret |-> newActivity]

createActivity(s, activity, now) ==
    LET id == s.currentActivityId
        newActivity == Spread(activity, [id |-> id, createdAt |-> now])
    IN [storage |-> [s EXCEPT !.currentActivityId = id + 1,
                              !.activities = MapSet(s.activities, id, newActivity)],
        ret |-> newActivity]

\* an optional argument is the list of what was passed: <<>> or <<value>>.
\* `limit ? ... : ...` takes the first branch for a number other than 0
Truthy(limit) == limit # <<>> /\ limit[1] # 0

\* Array.prototype.slice(0, end)
SliceFromStart(arr, end) ==
    LET n == Len(arr)
        stop == IF end < 0 THEN (IF n + end < 0 THEN 0 ELSE n + end)
                ELSE (IF end > n THEN n ELSE end)
    IN SubSeq(arr, 1, stop)

\* sort((a, b) => new Date(b.createdAt).getTime() - new Date(a.createdAt).getTime())
NewestFirst(arr) == SortByKey(arr, [i \in DOMAIN arr |-> -arr[i].createdAt])

getUserActivities(s, userId, limit) ==
    LET userActivities ==
            NewestFirst(SelectSeq(MapValues(s.activities),
                                  LAMBDA activity : activity.userId = userId))
    IN IF Truthy(limit) THEN SliceFromStart(userActivities, limit[1]) ELSE userActivities

getRecentActivities(s, limit) ==
    LET allActivities == NewestFirst(MapValues(s.activities))
    IN IF Truthy(limit) THEN SliceFromStart(allActivities, limit[1]) ELSE allActivities

(***************************************************************************)
(* Object identity.  A Map holds references: `this.papers.set(id, newPaper);*)
(* return newPaper` hands the caller the object the Map holds, and          *)
(* `return this.papers.get(id)` hands it out again.  The object a call      *)
(* returned is the one stored until the store replaces the entry, so the    *)
(* value the last call returned is the stored object itself.                *)
(***************************************************************************)
\* the calls that return a stored object, and the Map that holds it
ReturnsStoredObjectOf ==
    [createUser |-> "users", getUser |-> "users", updateUser |-> "users",
     createPaper |-> "papers", getPaper |-> "papers",
     incrementPaperDownloads |-> "papers"]

\* the key under which the object returned by `call` is stored
StoredKey(call) ==
    IF call.op \in {"createUser", "createPaper"} THEN call.ret.id ELSE call.args[1]

\* the caller assigns `value` to `field` of the object `call` returned: the store
\* afterwards, and the object
assignInPlace(s, call, field, value) ==
    LET coll == ReturnsStoredObjectOf[call.op]
        obj == [call.ret EXCEPT ![field] = value]
    IN [storage |-> [s EXCEPT ![coll] = MapSet(@, StoredKey(call), obj)], ret |-> obj]

(***************************************************************************)
(* Route handlers (registerRoutes).  A request carries `user`, the user    *)
(* passport deserialized from the session (undefined when the request is   *)
(* not authenticated), and `body`, which the insert schema accepts or      *)
(* rejects.  Every await of a handler below is on a store call, which      *)
(* settles without leaving the turn of the event loop, so a handler runs   *)
(* as one step.  A handler that makes several store calls is given         *)
(* `times`, the value `new Date()` yields in each of its store calls that  *)
(* reads the clock, in the order of the calls.                             *)
(***************************************************************************)
Response(s, status, body) == [storage |-> s, ret |-> [status |-> status, body |-> body]]

\* insert schemas of @shared/schema: parse throws a ZodError on a rejected body
SchemaAccepts(body) == body.valid

\* a POST /api/groups that forgets the creator's membership
postGroupsNoMember(s, req, times) ==
    IF req.user = Undefined
    THEN Response(s, "401", Undefined)
    ELSE IF ~SchemaAccepts(req.body)
    THEN Response(s, "400", Undefined)
    ELSE LET groupData == Spread(req.body.data, [creatorId |-> req.user.id])
             g == createStudyGroup(s, groupData, times[1])
             a == createActivity(g.storage,
                                 [userId |-> req.user.id, type |-> "group_created",
                                  targetId |-> g.ret.id, targetType |-> "study_group",
                                  metadata |-> [name |-> g.ret.name]],
                                 times[2])
         IN Response(a.storage, "201", g.ret)

\* a POST /api/groups that writes the activity before the creator's membership
postGroupsActivityFirst(s, req, times) ==
    IF req.user = Undefined
    THEN Response(s, "401", Undefined)
    ELSE IF ~SchemaAccepts(req.body)
    THEN Response(s, "400", Undefined)
    ELSE LET groupData == Spread(req.body.data, [creatorId |-> req.user.id])
             g == createStudyGroup(s, groupData, times[1])
             a == createActivity(g.storage,
                                 [userId |-> req.user.id, type |-> "group_created",
                                  targetId |-> g.ret.id, targetType |-> "study_group",
                                  metadata |-> [name |-> g.ret.name]],
                                 times[2])
             m == addStudyGroupMember(a.storage,
                                      [groupId |-> g.ret.id, userId |-> req.user.id,
                                       isAdmin |-> TRUE],
                                      times[3])
         IN Response(m.storage, "201", g.ret)

\* POST /api/groups
postGroups(s, req, times) ==
    IF req.user = Undefined
    THEN Response(s, "401", Undefined)
    ELSE IF ~SchemaAccepts(req.body)
    THEN Response(s, "400", Undefined)
    ELSE LET groupData == Spread(req.body.data, [creatorId |-> req.user.id])
             g == createStudyGroup(s, groupData, times[1])
             m == addStudyGroupMember(g.storage,
                                      [groupId |-> g.ret.id, userId |-> req.user.id,
                                       isAdmin |-> TRUE],
                                      times[2])
             a == createActivity(m.storage,
                                 [userId |-> req.user.id, type |-> "group_created",
                                  targetId |-> g.ret.id, targetType |-> "study_group",
                                  metadata |-> [name |-> g.ret.name]],
                                 times[3])
         IN Response(a.storage, "201", g.ret)

\* `!obj.key` is false: the field is there and holds true
FieldIsTrue(obj, key) == key \in DOMAIN obj /\ obj[key] = TRUE

\* a join handler that lets a groupId of the body override the one of the path
postGroupMembersBodyGroup(s, req, times) ==
    IF req.user = Undefined
    THEN Response(s, "401", Undefined)
    ELSE LET groupId == req.params.id
             group == getStudyGroup(s, groupId)
         IN IF group = Undefined
            THEN Response(s, "404", Undefined)
            ELSE IF ~SchemaAccepts(req.body)
            THEN Response(s, "400", Undefined)
            ELSE LET memberData == Spread([groupId |-> groupId], req.body.data)
                     m == addStudyGroupMember(s, memberData, times[1])
                     a == createActivity(m.storage,
                                         [userId |-> memberData.userId,
                                          type |-> "group_joined",
                                          targetId |-> groupId,
                                          targetType |-> "study_group",
                                          metadata |-> [name |-> group.name]],
                                         times[2])
                 IN Response(a.storage, "201", m.ret)

\* POST /api/groups/:id/members
postGroupMembers(s, req, times) ==
    IF req.user = Undefined
    THEN Response(s, "401", Undefined)
    ELSE LET groupId == req.params.id
             group == getStudyGroup(s, groupId)
         IN IF group = Undefined
            THEN Response(s, "404", Undefined)
            ELSE IF ~SchemaAccepts(req.body)
            THEN Response(s, "400", Undefined)
            ELSE LET memberData == Spread(req.body.data, [groupId |-> groupId])
                     m == addStudyGroupMember(s, memberData, times[1])
                     a == createActivity(m.storage,
                                         [userId |-> memberData.userId,
                                          type |-> "group_joined",
                                          targetId |-> groupId,
                                          targetType |-> "study_group",
                                          metadata |-> [name |-> group.name]],
                                         times[2])
                 IN Response(a.storage, "201", m.ret)

\* a DELETE handler that lets every authenticated requester remove any member
deleteGroupMemberNoCheck(s, req) ==
    IF req.user = Undefined
    THEN Response(s, "401", Undefined)
    ELSE LET r == removeStudyGroupMember(s, req.params.groupId, req.params.userId)
         IN IF ~r.ret
            THEN Response(s, "404", Undefined)
            ELSE Response(r.storage, "204", Undefined)

\* DELETE /api/groups/:groupId/members/:userId
deleteGroupMember(s, req) ==
    IF req.user = Undefined
    THEN Response(s, "401", Undefined)
    ELSE LET groupId == req.params.groupId
             userId == req.params.userId
             members == getStudyGroupMembers(s, groupId)
             requestingUserMembership ==
                 FindFirst(members,
                           {i \in DOMAIN members : members[i].userId = req.user.id})
         IN IF /\ userId # req.user.id
               /\ (\/ requestingUserMembership = Undefined
                   \/ ~FieldIsTrue(requestingUserMembership, "isAdmin"))
            THEN Response(s, "403", Undefined)
            ELSE LET r == removeStudyGroupMember(s, groupId, userId)
                 IN IF ~r.ret
                    THEN Response(s, "404", Undefined)
                    ELSE Response(r.storage, "204", Undefined)

\* a POST /api/groups/:id/sessions that does not look for the requester's row
postGroupSessionsNoMemberCheck(s, req, times) ==
    IF req.user = Undefined
    THEN Response(s, "401", Undefined)
    ELSE LET groupId == req.params.id
             group == getStudyGroup(s, groupId)
         IN IF group = Undefined
            THEN Response(s, "404", Undefined)
            ELSE IF ~SchemaAccepts(req.body)
            THEN Response(s, "400", Undefined)
            ELSE LET sessionData == Spread(req.body.data,
                                           [groupId |-> groupId,
                                            createdBy |-> req.user.id])
                     n == createStudySession(s, sessionData)
                     a == createActivity(n.storage,
                                         [userId |-> req.user.id,
                                          type |-> "session_created",
                                          targetId |-> n.ret.id,
                                          targetType |-> "study_session",
                                          metadata |-> [title |-> n.ret.title,
                                                        groupName |-> group.name]],
                                         times[1])
                 IN Response(a.storage, "201", n.ret)

\* POST /api/groups/:id/sessions
postGroupSessions(s, req, times) ==
    IF req.user = Undefined
    THEN Response(s, "401", Undefined)
    ELSE LET groupId == req.params.id
             group == getStudyGroup(s, groupId)
             members == getStudyGroupMembers(s, groupId)
             isMember == \E i \in DOMAIN members : members[i].userId = req.user.id
         IN IF group = Undefined
            THEN Response(s, "404", Undefined)
            ELSE IF ~isMember
            THEN Response(s, "403", Undefined)
            ELSE IF ~SchemaAccepts(req.body)
            THEN Response(s, "400", Undefined)
            ELSE LET sessionData == Spread(req.body.data,
                                           [groupId |-> groupId,
                                            createdBy |-> req.user.id])
                     n == createStudySession(s, sessionData)
                     a == createActivity(n.storage,
                                         [userId |-> req.user.id,
                                          type |-> "session_created",
                                          targetId |-> n.ret.id,
                                          targetType |-> "study_session",
                                          metadata |-> [title |-> n.ret.title,
                                                        groupName |-> group.name]],
                                         times[1])
                 IN Response(a.storage, "201", n.ret)

\* POST /api/papers; req.file is what upload.single('file') left, undefined when
\* the request carried no file
postPapers(s, req, times) ==
    IF req.user = Undefined
    THEN Response(s, "401", Undefined)
    ELSE IF req.file = Undefined
    THEN Response(s, "400", Undefined)
    ELSE IF ~SchemaAccepts(req.body)
    THEN Response(s, "400", Undefined)
    ELSE LET paperData == Spread(req.body.data,
                                 [fileUrl |-> <<"/uploads/", req.file.filename>>,
                                  uploaderId |-> req.user.id])
             p == createPaper(s, paperData, times[1])
             a == createActivity(p.storage,
                                 [userId |-> req.user.id, type |-> "paper_upload",
                                  targetId |-> p.ret.id, targetType |-> "paper",
                                  metadata |-> [title |-> p.ret.title]],
                                 times[2])
         IN Response(a.storage, "201", p.ret)

\* POST /api/papers/:id/download: no isAuthenticated in front of it
postPaperDownload(s, req) ==
    LET r == incrementPaperDownloads(s, req.params.id)
    IN IF r.ret = Undefined
       THEN Response(s, "404", Undefined)
       ELSE Response(r.storage, "200", r.ret)

\* POST /api/discussions
postDiscussions(s, req, times) ==
    IF req.user = Undefined
    THEN Response(s, "401", Undefined)
    ELSE IF ~SchemaAccepts(req.body)
    THEN Response(s, "400", Undefined)
    ELSE LET postData == Spread(req.body.data, [authorId |-> req.user.id])
             p == createDiscussionPost(s, postData, times[1])
             a == createActivity(p.storage,
                                 [userId |-> req.user.id, type |-> "post_created",
                                  targetId |-> p.ret.id,
                                  targetType |-> "discussion_post",
                                  metadata |-> [title |-> p.ret.title]],
                                 times[2])
         IN Response(a.storage, "201", p.ret)

\* POST /api/discussions/:id/replies
postDiscussionReplies(s, req, now) ==
    IF req.user = Undefined
    THEN Response(s, "401", Undefined)
    ELSE LET postId == req.params.id
             post == getDiscussionPost(s, postId)
         IN IF post = Undefined
            THEN Response(s, "404", Undefined)
            ELSE IF ~SchemaAccepts(req.body)
            THEN Response(s, "400", Undefined)
            ELSE LET replyData == Spread(req.body.data,
                                         [postId |-> postId, authorId |-> req.user.id])
                     r == createDiscussionReply(s, replyData, now)
                 IN Response(r.storage, "201", r.ret)

\* value !== 1 && value !== -1
VoteValueRejected(value) == value # Num(1) /\ value # Num(-1)

\* a vote route that takes every number for a vote
postDiscussionVoteAnyNumber(s, req) ==
    IF req.user = Undefined
    THEN Response(s, "401", Undefined)
    ELSE IF "num" \notin DOMAIN req.body.value
    THEN Response(s, "400", Undefined)
    ELSE LET r == voteDiscussionPost(s, req.params.id, req.body.value.num)
         IN IF r.ret = Undefined
            THEN Response(s, "404", Undefined)
            ELSE Response(r.storage, "200", r.ret)

\* POST /api/discussions/:id/vote
postDiscussionVote(s, req) ==
    IF req.user = Undefined
    THEN Response(s, "401", Undefined)
    ELSE IF VoteValueRejected(req.body.value)
    THEN Response(s, "400", Undefined)
    ELSE LET r == voteDiscussionPost(s, req.params.id, req.body.value.num)
         IN IF r.ret = Undefined
            THEN Response(s, "404", Undefined)
            ELSE Response(r.storage, "200", r.ret)

\* a reply-vote route without isAuthenticated
postDiscussionReplyVoteNoAuth(s, req) ==
    IF VoteValueRejected(req.body.value)
    THEN Response(s, "400", Undefined)
    ELSE LET r == voteDiscussionReply(s, req.params.id, req.body.value.num)
         IN IF r.ret = Undefined
            THEN Response(s, "404", Undefined)
            ELSE Response(r.storage, "200", r.ret)

\* POST /api/discussions/replies/:id/vote
postDiscussionReplyVote(s, req) ==
    IF req.user = Undefined
    THEN Response(s, "401", Undefined)
    ELSE IF VoteValueRejected(req.body.value)
    THEN Response(s, "400", Undefined)
    ELSE LET r == voteDiscussionReply(s, req.params.id, req.body.value.num)
         IN IF r.ret = Undefined
            THEN Response(s, "404", Undefined)
            ELSE Response(r.storage, "200", r.ret)

\* bcrypt.hash(password, saltRounds): computed off the event loop; the salt is
\* left out
hashPassword(password) == [bcrypt |-> password]

RegisterRoutes == {"POST /api/register", "POST /api/direct-register"}

\* res.status(400).send(message), or the redirect to the form with the error
Rejection(s, route, message) ==
    IF route = "POST /api/register"
    THEN Response(s, "400", [error |-> message])
    ELSE Response(s, "302", [location |-> "/direct-register", error |-> message])

\* POST /api/register and POST /api/direct-register up to `await hashPassword`:
\* the two existence checks; "pending" when both pass and the handler is
\* suspended, no response sent yet
registerBegin(s, req) ==
    IF getUserByUsername(s, req.body.username) # Undefined
    THEN Rejection(s, req.route, "Username already exists")
    ELSE IF getUserByEmail(s, req.body.email) # Undefined
    THEN Rejection(s, req.route, "Email already exists")
    ELSE Response(s, "pending", Undefined)

\* a handler that checks the username again before it creates the user
registerResumeRecheck(s, req, hashedPassword, now) ==
    IF getUserByUsername(s, req.body.username) # Undefined
    THEN Rejection(s, req.route, "Username already exists")
    ELSE LET c == createUser(s, Spread(req.body, [password |-> hashedPassword]), now)
         IN Response(c.storage, "201", c.ret)

\* the handlers from the completion of hashPassword on: createUser, and the
\* response (the user without the password, or the redirect to "/")
registerResume(s, req, hashedPassword, now) ==
    LET c == createUser(s, Spread(req.body, [password |-> hashedPassword]), now)
        userResponse == [k \in (DOMAIN c.ret) \ {"password"} |-> c.ret[k]]
    IN IF req.route = "POST /api/register"
       THEN Response(c.storage, "201", userResponse)
       ELSE Response(c.storage, "302", [location |-> "/"])

(***************************************************************************)
(* Inputs.                                                                 *)
(***************************************************************************)
InsertUsers ==
    {[username |-> "alice", email |-> "alice@uni.edu", password |-> "hash"],
     [username |-> "Bob", email |-> "bob@uni.edu", password |-> "hash"]}

\* create inputs that carry the fields the store assigns: an object passed as
\* InsertUser, InsertPaper, ... may hold more fields than the type names
OverridingUsers ==
    {[username |-> "carol", email |-> "carol@uni.edu", password |-> "hash",
      id |-> 7, points |-> 100],
     [username |-> "dave", email |-> "dave@uni.edu", password |-> "hash",
      id |-> 1, points |-> 0]}

OverridingPapers ==
    {[uploaderId |-> 1, course |-> "math", year |-> "2023", id |-> 7, downloads |-> 50]}

OverridingDiscussionPosts ==
    {[authorId |-> 1, course |-> "math", title |-> "q", id |-> 7, votes |-> 9]}

OverridingDiscussionReplies == {[postId |-> 1, authorId |-> 1, id |-> 7, votes |-> -3]}

\* Partial<User>
UserPatches == {[points |-> 5]}

\* Partial<User> has every field of a user, the id among them
ArbitraryUserPatches ==
    {[points |-> 5], [id |-> 2], [id |-> 1, username |-> "carol"]}

InsertPapers ==
    {[uploaderId |-> 1, course |-> "math", year |-> "2023"],
     [uploaderId |-> 1, course |-> "math", year |-> "2024"],
     [uploaderId |-> 1, course |-> "cs", year |-> "2023"]}

InsertDiscussionPosts == [authorId : {1}, course : {"math", "cs"}, title : {"q"}]

InsertDiscussionReplies == {[postId |-> 1, authorId |-> 1]}

InsertStudyGroups ==
    {[creatorId |-> 1, course |-> "math", name |-> "g"],
     [creatorId |-> 2, course |-> "cs", name |-> "g"]}

InsertStudyGroupMembers ==
    {[groupId |-> 1, userId |-> 1, isAdmin |-> TRUE],
     [groupId |-> 1, userId |-> 2, isAdmin |-> FALSE],
     [groupId |-> 2, userId |-> 1, isAdmin |-> FALSE]}

InsertStudySessions ==
    {[groupId |-> 1, createdBy |-> 1, startTime |-> 1],
     [groupId |-> 1, createdBy |-> 1, startTime |-> 2],
     [groupId |-> 1, createdBy |-> 1, startTime |-> 3],
     [groupId |-> 2, createdBy |-> 1, startTime |-> 2]}

InsertActivities ==
    [userId : {1, 2}, type : {"paper_upload"}, targetId : {1}, targetType : {"paper"}]

VoteValues == {-1, 1}

\* fields a caller assigns to in the object it was handed, and the value assigned
InPlaceWrites ==
    [users |-> [field |-> "points", value |-> 9],
     papers |-> [field |-> "downloads", value |-> 7]]

\* the limit argument of the activity feeds: omitted, or a number from 0 up
Limits == {<<>>} \cup {<<n>> : n \in 0..MaxLimit}

\* request bodies of the registration routes: the second has the username of
\* the first, the third the email of the first, ignoring case
RegisterBodies ==
    {[username |-> <<"a", "l">>, email |-> <<"a", "@", "x">>, password |-> "pw"],
     [username |-> <<"A", "L">>, email |-> <<"b", "@", "x">>, password |-> "pw"],
     [username |-> <<"b", "o">>, email |-> <<"A", "@", "X">>, password |-> "pw"]}

\* ids passed as arguments: every id issued so far, and the next one, which no
\* entity has
ArgIds(counter) == 1..counter

\* (groupId, userId) pairs passed to removeStudyGroupMember: the pair of every
\* stored row, and one pair more
PairArgs(s) ==
    {<<e.val.groupId, e.val.userId>> : e \in Range(s.studyGroupMembers)} \cup {<<2, 2>>}

\* request bodies of POST /api/groups
GroupBodies ==
    {[valid |-> TRUE, data |-> [course |-> "math", name |-> "g"]],
     [valid |-> TRUE, data |-> [course |-> "cs", name |-> "g", creatorId |-> 2]],
     [valid |-> FALSE, data |-> [course |-> "math"]]}

\* request bodies of POST /api/groups/:id/members: the user to add need not be the
\* requester; a groupId in the body is overridden; one body has no isAdmin
JoinBodies ==
    {[valid |-> TRUE, data |-> [userId |-> 1, isAdmin |-> FALSE]],
     [valid |-> TRUE, data |-> [userId |-> 2, isAdmin |-> TRUE]],
     [valid |-> TRUE, data |-> [userId |-> 2, groupId |-> 2]],
     [valid |-> FALSE, data |-> [isAdmin |-> FALSE]]}

\* request bodies of POST /api/groups/:id/sessions: the second names a group and a
\* creator of its own
SessionBodies ==
    {[valid |-> TRUE, data |-> [title |-> "s", startTime |-> 1]],
     [valid |-> TRUE, data |-> [title |-> "s", startTime |-> 2, groupId |-> 2,
                                createdBy |-> 2]],
     [valid |-> FALSE, data |-> [title |-> "s"]]}

\* request bodies of POST /api/papers, and what upload.single('file') leaves
PaperBodies ==
    {[valid |-> TRUE, data |-> [title |-> "t", course |-> "math", year |-> "2023"]],
     [valid |-> FALSE, data |-> [title |-> "t"]]}

RequestFiles == {Undefined, [filename |-> "f.pdf"]}

\* request bodies of POST /api/discussions: the second names an author of its own
DiscussionBodies ==
    {[valid |-> TRUE, data |-> [title |-> "q", course |-> "math"]],
     [valid |-> TRUE, data |-> [title |-> "q", course |-> "cs", authorId |-> 2]],
     [valid |-> FALSE, data |-> [title |-> "q"]]}

\* request bodies of POST /api/discussions/:id/replies: the second names a post of
\* its own
ReplyBodies ==
    {[valid |-> TRUE, data |-> [content |-> "r"]],
     [valid |-> TRUE, data |-> [content |-> "r", postId |-> 2]],
     [valid |-> FALSE, data |-> [postId |-> 1]]}

\* the `value` of the body of a vote request: 1, -1, another number, the string
\* "1", and no value
VoteBodyValues == {Num(1), Num(-1), Num(2), Str("1"), Undefined}

\* the vote requests for the ids up to `counter`.  The handlers read of the
\* requester only whether there is one: the authenticated requests are those of
\* the user stored first, with every value; a request that is not authenticated
\* carries the value 1
VoteRequests(s, counter) ==
    LET requesters == IF s.users = <<>> THEN {} ELSE {s.users[1].val}
    IN {[user |-> user, params |-> [id |-> id], body |-> [value |-> value]] :
            user \in requesters, id \in ArgIds(counter), value \in VoteBodyValues}
       \cup {[user |-> Undefined, params |-> [id |-> id], body |-> [value |-> Num(1)]] :
                 id \in ArgIds(counter)}

\* user ids passed as the :userId parameter
UserIdParams == {1, 2}

\* the users a request can be authenticated as, and undefined for none
RequestUsers(s) == Range(MapValues(s.users)) \cup {Undefined}

(***************************************************************************)
(* History.                                                                *)
(***************************************************************************)
NoCalls == [k \in {} |-> 0]

Count(f, k) == IF k \in DOMAIN f THEN f[k] ELSE 0

Bump(f, k, d) ==
    [x \in (DOMAIN f) \cup {k} |-> Count(f, x) + (IF x = k THEN d ELSE 0)]

Put(f, k, v) == [x \in (DOMAIN f) \cup {k} |-> IF x = k THEN v ELSE f[x]]

NoHistory ==
    [issued |-> [user |-> <<>>, paper |-> <<>>, post |-> <<>>, reply |-> <<>>,
                 group |-> <<>>, member |-> <<>>, session |-> <<>>,
                 activity |-> <<>>],
     incCalls |-> NoCalls,     \* paper id -> increment calls made on the stored paper
     postVotes |-> NoCalls,    \* post id -> sum of the values voted on the stored post
     replyVotes |-> NoCalls,   \* reply id -> sum of the values voted on the stored reply
     removedTop |-> {},        \* membership ids removed while they were the highest issued
     groupVia |-> NoCalls,     \* group id -> "store" or "route", how it was created
     touched |-> {},           \* group ids whose rows a direct add or remove changed
     raced |-> FALSE]          \* a registration passed its checks while another was suspended

Issue(h, type, id) == [h EXCEPT !.issued[type] = Append(@, id)]

TotalCreated(s) ==
    (s.currentUserId - 1) + (s.currentPaperId - 1) + (s.currentDiscussionPostId - 1)
    + (s.currentDiscussionReplyId - 1) + (s.currentStudyGroupId - 1)
    + (s.currentStudyGroupMemberId - 1) + (s.currentStudySessionId - 1)
    + (s.currentActivityId - 1)

Room(cap, n) == TotalCreated(storage) + n <= cap

Call(op, args, ret) == [op |-> op, args |-> args, ret |-> ret]

\* no call is suspended.  `micro` is the microtask queue: the calls suspended at
\* an await on a settled promise, resumed in order before anything else runs.
\* `io` holds the handlers suspended at an await on work done outside the event
\* loop (bcrypt), resumed when that work completes, in any order.
IdleLoop == [micro |-> <<>>, io |-> <<>>]

(***************************************************************************)
(* The state machine.                                                      *)
(***************************************************************************)
Init ==
    /\ storage = NewMemStorage
    /\ clock = 0
    /\ loop = IdleLoop
    /\ last = Call("constructor", <<>>, Undefined)
    /\ hist = NoHistory

\* the handler's store calls all read the time `now`
AtOnce(now) == [i \in 1..3 |-> now]

\* time passes while a handler runs: its n store calls that read the clock read
\* it at `now` or later, each no earlier than the call before it
Readings(now, n) ==
    {times \in [1..n -> now..MaxClock] :
         times[1] = now /\ \A i \in 1..(n - 1) : times[i] <= times[i + 1]}

\* the clock when a request has been answered: the time of its last store call,
\* and the time it arrived when it was rejected before any store call
ClockAfter(now, times, response) ==
    IF response.status = "201" THEN times[Len(times)] ELSE now

Tick ==
    /\ clock < MaxClock
    /\ clock' = clock + 1
    /\ UNCHANGED <<storage, loop, last, hist>>

CreateUserFrom(cap, inputs) ==
    /\ Room(cap, 1)
    /\ \E insertUser \in inputs :
        LET r == createUser(storage, insertUser, clock)
        IN /\ storage' = r.storage
           /\ last' = Call("createUser", <<insertUser>>, r.ret)
           /\ hist' = Issue(hist, "user", r.ret.id)
    /\ UNCHANGED <<clock, loop>>

CreateUser(cap) == CreateUserFrom(cap, InsertUsers)

UpdateUserWith(patches) ==
    /\ \E id \in ArgIds(storage.currentUserId), userData \in patches :
        LET r == updateUser(storage, id, userData)
        IN /\ storage' = r.storage
           /\ last' = Call("updateUser", <<id, userData>>, r.ret)
    /\ UNCHANGED <<clock, loop, hist>>

UpdateUser == UpdateUserWith(UserPatches)

CreatePaperFrom(cap, inputs) ==
    /\ Room(cap, 1)
    /\ \E paper \in inputs :
        LET r == createPaper(storage, paper, clock)
        IN /\ storage' = r.storage
           /\ last' = Call("createPaper", <<paper>>, r.ret)
           /\ hist' = Issue(hist, "paper", r.ret.id)
    /\ UNCHANGED <<clock, loop>>

CreatePaper(cap) == CreatePaperFrom(cap, InsertPapers)

IncrementPaperDownloads ==
    /\ \E id \in ArgIds(storage.currentPaperId) :
        /\ MapHas(storage.papers, id) => MapGet(storage.papers, id).downloads < MaxDownloads
        /\ LET r == incrementPaperDownloads(storage, id)
           IN /\ storage' = r.storage
              /\ last' = Call("incrementPaperDownloads", <<id>>, r.ret)
              /\ hist' = IF MapHas(storage.papers, id)
                         THEN [hist EXCEPT !.incCalls = Bump(@, id, 1)]
                         ELSE hist
    /\ UNCHANGED <<clock, loop>>

CreateDiscussionPostFrom(cap, inputs) ==
    /\ Room(cap, 1)
    /\ \E post \in inputs :
        LET r == createDiscussionPost(storage, post, clock)
        IN /\ storage' = r.storage
           /\ last' = Call("createDiscussionPost", <<post>>, r.ret)
           /\ hist' = Issue(hist, "post", r.ret.id)
    /\ UNCHANGED <<clock, loop>>

CreateDiscussionPost(cap) == CreateDiscussionPostFrom(cap, InsertDiscussionPosts)

CreateDiscussionReplyFrom(cap, inputs) ==
    /\ Room(cap, 1)
    /\ \E reply \in inputs :
        LET r == createDiscussionReply(storage, reply, clock)
        IN /\ storage' = r.storage
           /\ last' = Call("createDiscussionReply", <<reply>>, r.ret)
           /\ hist' = Issue(hist, "reply", r.ret.id)
    /\ UNCHANGED <<clock, loop>>

CreateDiscussionReply(cap) == CreateDiscussionReplyFrom(cap, InsertDiscussionReplies)

VotesInRange(m, id, value) ==
    MapHas(m, id) =>
        (MapGet(m, id).votes + value <= MaxVotes /\ MapGet(m, id).votes + value >= -MaxVotes)

VoteDiscussionPost ==
    /\ \E id \in ArgIds(storage.currentDiscussionPostId), value \in VoteValues :
        /\ VotesInRange(storage.discussionPosts, id, value)
        /\ LET r == voteDiscussionPost(storage, id, value)
           IN /\ storage' = r.storage
              /\ last' = Call("voteDiscussionPost", <<id, value>>, r.ret)
              /\ hist' = IF MapHas(storage.discussionPosts, id)
                         THEN [hist EXCEPT !.postVotes = Bump(@, id, value)]
                         ELSE hist
    /\ UNCHANGED <<clock, loop>>

VoteDiscussionReply ==
    /\ \E id \in ArgIds(storage.currentDiscussionReplyId), value \in VoteValues :
        /\ VotesInRange(storage.discussionReplies, id, value)
        /\ LET r == voteDiscussionReply(storage, id, value)
           IN /\ storage' = r.storage
              /\ last' = Call("voteDiscussionReply", <<id, value>>, r.ret)
              /\ hist' = IF MapHas(storage.discussionReplies, id)
                         THEN [hist EXCEPT !.replyVotes = Bump(@, id, value)]
                         ELSE hist
    /\ UNCHANGED <<clock, loop>>

CreateStudyGroup(cap) ==
    /\ Room(cap, 1)
    /\ \E group \in InsertStudyGroups :
        LET r == createStudyGroup(storage, group, clock)
        IN /\ storage' = r.storage
           /\ last' = Call("createStudyGroup", <<group>>, r.ret)
           /\ hist' = [Issue(hist, "group", r.ret.id) EXCEPT
                           !.groupVia = Put(@, r.ret.id, "store")]
    /\ UNCHANGED <<clock, loop>>

AddStudyGroupMember(cap) ==
    /\ Room(cap, 1)
    /\ \E member \in InsertStudyGroupMembers :
        LET r == addStudyGroupMember(storage, member, clock)
        IN /\ storage' = r.storage
           /\ last' = Call("addStudyGroupMember", <<member>>, r.ret)
           /\ hist' = [Issue(hist, "member", r.ret.id) EXCEPT
                           !.touched = @ \cup {member.groupId}]
    /\ UNCHANGED <<clock, loop>>

RemoveStudyGroupMember ==
    /\ \E pair \in PairArgs(storage) :
        LET groupId == pair[1]
            userId == pair[2]
            r == removeStudyGroupMember(storage, groupId, userId)
            gone == Range(MapKeys(storage.studyGroupMembers))
                        \ Range(MapKeys(r.storage.studyGroupMembers))
        IN /\ storage' = r.storage
           /\ last' = Call("removeStudyGroupMember", <<groupId, userId>>, r.ret)
           /\ hist' = [hist EXCEPT
                           !.touched = @ \cup (IF r.ret THEN {groupId} ELSE {}),
                           !.removedTop = @ \cup
                               {k \in gone : k = storage.currentStudyGroupMemberId - 1}]
    /\ UNCHANGED <<clock, loop>>

CreateStudySession(cap) ==
    /\ Room(cap, 1)
    /\ \E session \in InsertStudySessions :
        LET r == createStudySession(storage, session)
        IN /\ storage' = r.storage
           /\ last' = Call("createStudySession", <<session>>, r.ret)
           /\ hist' = Issue(hist, "session", r.ret.id)
    /\ UNCHANGED <<clock, loop>>

CreateActivity(cap) ==
    /\ Room(cap, 1)
    /\ \E activity \in InsertActivities :
        LET r == createActivity(storage, activity, clock)
        IN /\ storage' = r.storage
           /\ last' = Call("createActivity", <<activity>>, r.ret)
           /\ hist' = Issue(hist, "activity", r.ret.id)
    /\ UNCHANGED <<clock, loop>>

\* the user ids a handler's store calls issued, read off the counter
IssuedUsers(h, s, t) ==
    [h EXCEPT !.issued.user =
         @ \o [i \in 1..(t.currentUserId - s.currentUserId) |-> s.currentUserId + i - 1]]

\* the ids a handler's store calls issued, read off the counters
IssuedBy(h, s, t) ==
    LET New(from, to) == [i \in 1..(to - from) |-> from + i - 1]
    IN [h EXCEPT
          !.issued.group = @ \o New(s.currentStudyGroupId, t.currentStudyGroupId),
          !.issued.member =
              @ \o New(s.currentStudyGroupMemberId, t.currentStudyGroupMemberId),
          !.issued.activity = @ \o New(s.currentActivityId, t.currentActivityId),
          !.issued.session = @ \o New(s.currentStudySessionId, t.currentStudySessionId),
          !.issued.paper = @ \o New(s.currentPaperId, t.currentPaperId),
          !.issued.post = @ \o New(s.currentDiscussionPostId, t.currentDiscussionPostId),
          !.issued.reply =
              @ \o New(s.currentDiscussionReplyId, t.currentDiscussionReplyId)]

PostGroupsDuring(cap, readings) ==
    /\ Room(cap, 3)
    /\ \E user \in RequestUsers(storage), body \in GroupBodies,
          times \in readings :
        LET req == [user |-> user, body |-> body]
            r == postGroups(storage, req, times)
        IN /\ storage' = r.storage
           /\ clock' = ClockAfter(clock, times, r.ret)
           /\ last' = Call("POST /api/groups", <<req>>, r.ret)
           /\ hist' = IF r.ret.status = "201"
                      THEN [IssuedBy(hist, storage, r.storage) EXCEPT
                                !.groupVia = Put(@, r.ret.body.id, "route")]
                      ELSE hist
    /\ UNCHANGED loop

PostGroups(cap) == PostGroupsDuring(cap, {AtOnce(clock)})

PostGroupMembersDuring(cap, readings) ==
    /\ Room(cap, 2)
    /\ \E user \in RequestUsers(storage), id \in ArgIds(storage.currentStudyGroupId),
          body \in JoinBodies,
          times \in readings :
        LET req == [user |-> user, params |-> [id |-> id], body |-> body]
            r == postGroupMembers(storage, req, times)
        IN /\ storage' = r.storage
           /\ clock' = ClockAfter(clock, times, r.ret)
           /\ last' = Call("POST /api/groups/:id/members", <<req>>, r.ret)
           /\ hist' = IF r.ret.status = "201"
                      THEN [IssuedBy(hist, storage, r.storage) EXCEPT
                                !.touched = @ \cup {id}]
                      ELSE hist
    /\ UNCHANGED loop

PostGroupMembers(cap) == PostGroupMembersDuring(cap, {AtOnce(clock)})

DeleteGroupMember ==
    /\ \E user \in RequestUsers(storage), groupId \in ArgIds(storage.currentStudyGroupId),
          userId \in UserIdParams :
        LET req == [user |-> user, params |-> [groupId |-> groupId, userId |-> userId]]
            r == deleteGroupMember(storage, req)
            gone == Range(MapKeys(storage.studyGroupMembers))
                        \ Range(MapKeys(r.storage.studyGroupMembers))
        IN /\ storage' = r.storage
           /\ last' = Call("DELETE /api/groups/:groupId/members/:userId", <<req>>, r.ret)
           /\ hist' = [hist EXCEPT
                           !.touched = @ \cup (IF gone # {} THEN {groupId} ELSE {}),
                           !.removedTop = @ \cup
                               {k \in gone : k = storage.currentStudyGroupMemberId - 1}]
    /\ UNCHANGED <<clock, loop>>

PostGroupSessionsDuring(cap, readings) ==
    /\ Room(cap, 2)
    /\ \E user \in RequestUsers(storage), id \in ArgIds(storage.currentStudyGroupId),
          body \in SessionBodies,
          times \in readings :
        LET req == [user |-> user, params |-> [id |-> id], body |-> body]
            r == postGroupSessions(storage, req, times)
        IN /\ storage' = r.storage
           /\ clock' = ClockAfter(clock, times, r.ret)
           /\ last' = Call("POST /api/groups/:id/sessions", <<req>>, r.ret)
           /\ hist' = IssuedBy(hist, storage, r.storage)
    /\ UNCHANGED loop

PostGroupSessions(cap) == PostGroupSessionsDuring(cap, {AtOnce(clock)})

PostPapersDuring(cap, readings) ==
    /\ Room(cap, 2)
    /\ \E user \in RequestUsers(storage), file \in RequestFiles, body \in PaperBodies,
          times \in readings :
        LET req == [user |-> user, file |-> file, body |-> body]
            r == postPapers(storage, req, times)
        IN /\ storage' = r.storage
           /\ clock' = ClockAfter(clock, times, r.ret)
           /\ last' = Call("POST /api/papers", <<req>>, r.ret)
           /\ hist' = IssuedBy(hist, storage, r.storage)
    /\ UNCHANGED loop

PostPapers(cap) == PostPapersDuring(cap, {AtOnce(clock)})

PostPaperDownload ==
    /\ \E user \in RequestUsers(storage), id \in ArgIds(storage.currentPaperId) :
        /\ MapHas(storage.papers, id) => MapGet(storage.papers, id).downloads < MaxDownloads
        /\ LET req == [user |-> user, params |-> [id |-> id]]
               r == postPaperDownload(storage, req)
           IN /\ storage' = r.storage
              /\ last' = Call("POST /api/papers/:id/download", <<req>>, r.ret)
              /\ hist' = IF r.ret.status = "200"
                         THEN [hist EXCEPT !.incCalls = Bump(@, id, 1)]
                         ELSE hist
    /\ UNCHANGED <<clock, loop>>

PostDiscussionsDuring(cap, readings) ==
    /\ Room(cap, 2)
    /\ \E user \in RequestUsers(storage), body \in DiscussionBodies,
          times \in readings :
        LET req == [user |-> user, body |-> body]
            r == postDiscussions(storage, req, times)
        IN /\ storage' = r.storage
           /\ clock' = ClockAfter(clock, times, r.ret)
           /\ last' = Call("POST /api/discussions", <<req>>, r.ret)
           /\ hist' = IssuedBy(hist, storage, r.storage)
    /\ UNCHANGED loop

PostDiscussions(cap) == PostDiscussionsDuring(cap, {AtOnce(clock)})

PostDiscussionReplies(cap) ==
    /\ Room(cap, 1)
    /\ \E user \in RequestUsers(storage),
          id \in ArgIds(storage.currentDiscussionPostId), body \in ReplyBodies :
        LET req == [user |-> user, params |-> [id |-> id], body |-> body]
            r == postDiscussionReplies(storage, req, clock)
        IN /\ storage' = r.storage
           /\ last' = Call("POST /api/discussions/:id/replies", <<req>>, r.ret)
           /\ hist' = IssuedBy(hist, storage, r.storage)
    /\ UNCHANGED <<clock, loop>>

\* a vote of a number keeps the counter within the bounds of the model
VoteBodyInRange(m, id, value) ==
    "num" \in DOMAIN value => VotesInRange(m, id, value.num)

PostDiscussionVote ==
    /\ \E req \in VoteRequests(storage, storage.currentDiscussionPostId) :
        /\ VoteBodyInRange(storage.discussionPosts, req.params.id, req.body.value)
        /\ LET r == postDiscussionVote(storage, req)
           IN /\ storage' = r.storage
              /\ last' = Call("POST /api/discussions/:id/vote", <<req>>, r.ret)
              /\ hist' = IF r.ret.status = "200"
                         THEN [hist EXCEPT !.postVotes =
                                   Bump(@, req.params.id, req.body.value.num)]
                         ELSE hist
    /\ UNCHANGED <<clock, loop>>

PostDiscussionReplyVote ==
    /\ \E req \in VoteRequests(storage, storage.currentDiscussionReplyId) :
        /\ VoteBodyInRange(storage.discussionReplies, req.params.id, req.body.value)
        /\ LET r == postDiscussionReplyVote(storage, req)
           IN /\ storage' = r.storage
              /\ last' = Call("POST /api/discussions/replies/:id/vote", <<req>>, r.ret)
              /\ hist' = IF r.ret.status = "200"
                         THEN [hist EXCEPT !.replyVotes =
                                   Bump(@, req.params.id, req.body.value.num)]
                         ELSE hist
    /\ UNCHANGED <<clock, loop>>

GetUser ==
    /\ \E id \in ArgIds(storage.currentUserId) :
        last' = Call("getUser", <<id>>, getUser(storage, id))
    /\ UNCHANGED <<storage, clock, loop, hist>>

GetPaper ==
    /\ \E id \in ArgIds(storage.currentPaperId) :
        last' = Call("getPaper", <<id>>, getPaper(storage, id))
    /\ UNCHANGED <<storage, clock, loop, hist>>

\* the caller of the last call writes to a field of the object it was handed
AssignInPlace ==
    /\ last.op \in DOMAIN ReturnsStoredObjectOf
    /\ last.ret # Undefined
    /\ LET w == InPlaceWrites[ReturnsStoredObjectOf[last.op]]
           r == assignInPlace(storage, last, w.field, w.value)
       IN /\ last.ret[w.field] # w.value
          /\ storage' = r.storage
          /\ last' = Call("assign in place", <<last.op, StoredKey(last)>>, r.ret)
    /\ UNCHANGED <<clock, loop, hist>>

\* a caller starts incrementPaperDownloads without waiting for the calls made
\* before it: the call reads the paper and is suspended at its await
BeginIncrementPaperDownloads ==
    /\ Len(loop.micro) < MaxInFlight
    /\ \E id \in ArgIds(storage.currentPaperId) :
        /\ Count(hist.incCalls, id) < MaxDownloads
        /\ loop' = [loop EXCEPT !.micro =
                        Append(@, [op |-> "incrementPaperDownloads", args |-> <<id>>,
                                   read |-> getPaper(storage, id)])]
        /\ last' = Call("begin incrementPaperDownloads", <<id>>, Undefined)
        /\ hist' = IF MapHas(storage.papers, id)
                   THEN [hist EXCEPT !.incCalls = Bump(@, id, 1)]
                   ELSE hist
    /\ UNCHANGED <<storage, clock>>

\* a caller starts voteDiscussionPost in the same way
BeginVoteDiscussionPost ==
    /\ Len(loop.micro) < MaxInFlight
    /\ \E id \in ArgIds(storage.currentDiscussionPostId), value \in VoteValues :
        /\ VotesInRange(storage.discussionPosts, id, value)
        /\ Count(hist.postVotes, id) + value \in (-MaxInFlight)..MaxInFlight
        /\ loop' = [loop EXCEPT !.micro =
                        Append(@, [op |-> "voteDiscussionPost", args |-> <<id, value>>,
                                   read |-> getDiscussionPost(storage, id)])]
        /\ last' = Call("begin voteDiscussionPost", <<id, value>>, Undefined)
        /\ hist' = IF MapHas(storage.discussionPosts, id)
                   THEN [hist EXCEPT !.postVotes = Bump(@, id, value)]
                   ELSE hist
    /\ UNCHANGED <<storage, clock>>

\* the microtask queue resumes the call suspended first
ResumeMicrotask ==
    /\ loop.micro # <<>>
    /\ LET call == Head(loop.micro)
           r == IF call.op = "incrementPaperDownloads"
                THEN incrementPaperDownloadsResume(storage, call.args[1], call.read)
                ELSE voteDiscussionPostResume(storage, call.args[1], call.args[2],
                                              call.read)
       IN /\ storage' = r.storage
          /\ last' = Call(call.op, call.args, r.ret)
    /\ loop' = [loop EXCEPT !.micro = Tail(@)]
    /\ UNCHANGED <<clock, hist>>

\* a registration request arrives: the handler runs to its response, or to its
\* await on hashPassword
RegisterBegin(cap) ==
    /\ Room(cap, 1 + Len(loop.io))
    /\ \E route \in RegisterRoutes, body \in RegisterBodies :
        LET req == [route |-> route, body |-> body]
            r == registerBegin(storage, req)
        IN /\ last' = Call(route, <<body>>, r.ret)
           /\ IF r.ret.status = "pending"
              THEN /\ loop' = [loop EXCEPT !.io = Append(@, req)]
                   /\ hist' = [hist EXCEPT !.raced = @ \/ loop.io # <<>>]
              ELSE UNCHANGED <<loop, hist>>
    /\ UNCHANGED <<storage, clock>>

\* hashPassword completes for one of the suspended handlers, which goes on
RegisterResume ==
    /\ \E i \in DOMAIN loop.io :
        LET req == loop.io[i]
            r == registerResume(storage, req, hashPassword(req.body.password), clock)
        IN /\ storage' = r.storage
           /\ loop' = [loop EXCEPT !.io = SubSeq(@, 1, i - 1) \o SubSeq(@, i + 1, Len(@))]
           /\ last' = Call(req.route, <<req.body>>, r.ret)
           /\ hist' = IssuedUsers(hist, storage, r.storage)
    /\ UNCHANGED clock

\* every operation of the store, called directly
Next ==
    \/ CreateUser(MaxEntities)
    \/ UpdateUser
    \/ CreatePaper(MaxEntities)
    \/ IncrementPaperDownloads
    \/ CreateDiscussionPost(MaxEntities)
    \/ CreateDiscussionReply(MaxEntities)
    \/ VoteDiscussionPost
    \/ VoteDiscussionReply
    \/ CreateStudyGroup(MaxEntities)
    \/ AddStudyGroupMember(MaxEntities)
    \/ RemoveStudyGroupMember
    \/ CreateStudySession(MaxEntities)
    \/ CreateActivity(MaxEntities)

Spec == Init /\ [][Next]_vars

\* ids and keys: every operation of the store, updateUser called with partial
\* users that carry an id
NextKeys ==
    \/ CreateUser(MaxKeyEntities)
    \/ UpdateUserWith(ArbitraryUserPatches)
    \/ CreatePaper(MaxKeyEntities)
    \/ IncrementPaperDownloads
    \/ CreateDiscussionPost(MaxKeyEntities)
    \/ CreateDiscussionReply(MaxKeyEntities)
    \/ VoteDiscussionPost
    \/ VoteDiscussionReply
    \/ CreateStudyGroup(MaxKeyEntities)
    \/ AddStudyGroupMember(MaxKeyEntities)
    \/ RemoveStudyGroupMember
    \/ CreateStudySession(MaxKeyEntities)
    \/ CreateActivity(MaxKeyEntities)

SpecKeys == Init /\ [][NextKeys]_vars

\* store-assigned fields: the creates of users, papers, posts and replies, called
\* with inputs that do and inputs that do not carry the fields the store assigns
NextAssigned ==
    \/ CreateUserFrom(MaxAssignedEntities, InsertUsers \cup OverridingUsers)
    \/ CreatePaperFrom(MaxAssignedEntities, InsertPapers \cup OverridingPapers)
    \/ CreateDiscussionPostFrom(MaxAssignedEntities,
                                InsertDiscussionPosts \cup OverridingDiscussionPosts)
    \/ CreateDiscussionReplyFrom(MaxAssignedEntities,
                                 InsertDiscussionReplies \cup OverridingDiscussionReplies)

SpecAssigned == Init /\ [][NextAssigned]_vars

\* references: a store written by requests alone, users registering, and the
\* routes that create and remove groups, memberships, sessions, posts and replies
NextReferences ==
    \/ RegisterBegin(MaxReferenceEntities - 5)
    \/ RegisterResume
    \/ PostGroups(MaxReferenceEntities)
    \/ PostGroupMembers(MaxReferenceEntities)
    \/ DeleteGroupMember
    \/ PostGroupSessions(MaxReferenceEntities)
    \/ PostDiscussions(MaxReferenceEntities)
    \/ PostDiscussionReplies(MaxReferenceEntities)

SpecReferences == Init /\ [][NextReferences]_vars

\* the store is filled in a fixed order: `create` runs when n entities are stored
Stage(n, create) == TotalCreated(storage) = n /\ create

\* a step of `request` whose request carries no authenticated user
Unauthenticated(request) == request /\ last'.args[1].user = Undefined

\* unauthenticated requests: a store filled by direct calls, then a user
\* registering, and at every stage a request without authentication to every
\* route that writes to the store
NextGuests ==
    \/ CreateDiscussionReply(MaxGuestEntities - 5)
    \/ Stage(MaxGuestEntities - 5, CreateDiscussionPost(MaxGuestEntities))
    \/ Stage(MaxGuestEntities - 4, CreatePaper(MaxGuestEntities))
    \/ Stage(MaxGuestEntities - 3, CreateStudyGroup(MaxGuestEntities))
    \/ Stage(MaxGuestEntities - 2, AddStudyGroupMember(MaxGuestEntities))
    \/ Stage(MaxGuestEntities - 1, RegisterBegin(MaxGuestEntities))
    \/ RegisterResume
    \/ Unauthenticated(PostPapers(MaxGuestEntities + 2))
    \/ Unauthenticated(PostPaperDownload)
    \/ Unauthenticated(PostDiscussions(MaxGuestEntities + 2))
    \/ Unauthenticated(PostDiscussionReplies(MaxGuestEntities + 2))
    \/ Unauthenticated(PostDiscussionVote)
    \/ Unauthenticated(PostDiscussionReplyVote)
    \/ Unauthenticated(PostGroups(MaxGuestEntities + 2))
    \/ Unauthenticated(PostGroupMembers(MaxGuestEntities + 2))
    \/ Unauthenticated(DeleteGroupMember)
    \/ Unauthenticated(PostGroupSessions(MaxGuestEntities + 2))

SpecGuests == Init /\ [][NextGuests]_vars
\* study groups: the store's group and membership operations and POST /api/groups
NextGroups ==
    \/ CreateUser(MaxGroupEntities)
    \/ CreateStudyGroup(MaxGroupEntities)
    \/ AddStudyGroupMember(MaxGroupEntities)
    \/ RemoveStudyGroupMember
    \/ PostGroups(MaxGroupEntities)

SpecGroups == Init /\ [][NextGroups]_vars

\* lists: the three entity types that have a filtered list, and their updates
NextLists ==
    \/ CreatePaper(MaxListEntities)
    \/ IncrementPaperDownloads
    \/ CreateDiscussionPost(MaxListEntities)
    \/ VoteDiscussionPost
    \/ CreateStudyGroup(MaxListEntities)

SpecLists == Init /\ [][NextLists]_vars

\* study sessions: memberships, sessions and the passing of time
NextSessions ==
    \/ Tick
    \/ AddStudyGroupMember(MaxSessionEntities)
    \/ RemoveStudyGroupMember
    \/ CreateStudySession(MaxSessionEntities)

SpecSessions == Init /\ [][NextSessions]_vars

\* callers that write to the objects the store handed them
NextAlias ==
    \/ CreateUser(MaxAliasEntities)
    \/ GetUser
    \/ CreatePaper(MaxAliasEntities)
    \/ GetPaper
    \/ IncrementPaperDownloads
    \/ AssignInPlace

SpecAlias == Init /\ [][NextAlias]_vars

\* the activity log: the calls and the request that write it, among other calls
NextActivities ==
    \/ CreateUser(MaxActivityEntities)
    \/ UpdateUser
    \/ RemoveStudyGroupMember
    \/ CreateActivity(MaxActivityEntities)
    \/ PostGroups(MaxActivityEntities)

SpecActivities == Init /\ [][NextActivities]_vars

\* counter calls started without waiting for one another
NextOverlap ==
    \/ CreatePaper(MaxOverlapEntities)
    \/ CreateDiscussionPost(MaxOverlapEntities)
    \/ BeginIncrementPaperDownloads
    \/ BeginVoteDiscussionPost
    \/ ResumeMicrotask

SpecOverlap == Init /\ [][NextOverlap]_vars

\* registration requests, handled one at a time or while others are suspended
NextRegister ==
    \/ RegisterBegin(MaxRegisterEntities)
    \/ RegisterResume

SpecRegister == Init /\ [][NextRegister]_vars

\* activity feeds: activities created as time passes
NextFeeds ==
    \/ Tick
    \/ CreateActivity(MaxFeedEntities)

SpecFeeds == Init /\ [][NextFeeds]_vars

\* membership requests: users and groups, join requests and removal requests
NextMembers ==
    \/ CreateUser(MaxMemberEntities)
    \/ CreateStudyGroup(MaxMemberEntities)
    \/ PostGroups(MaxMemberEntities)
    \/ PostGroupMembers(MaxMemberEntities)
    \/ DeleteGroupMember

SpecMembers == Init /\ [][NextMembers]_vars

\* the session route, among the requests that create groups and end memberships
NextSessionRoute ==
    \/ CreateUser(MaxSessionRouteEntities)
    \/ CreateStudyGroup(MaxSessionRouteEntities)
    \/ PostGroups(MaxSessionRouteEntities)
    \/ DeleteGroupMember
    \/ PostGroupSessions(MaxSessionRouteEntities)

SpecSessionRoute == Init /\ [][NextSessionRoute]_vars

\* the vote routes, on the posts and replies in the store; the users are
\* created first and a reply last
NextVotes ==
    \/ CreateUser(MaxVoteEntities - 2)
    \/ CreateDiscussionPost(MaxVoteEntities - 1)
    \/ CreateDiscussionReply(MaxVoteEntities)
    \/ PostDiscussionVote
    \/ PostDiscussionReplyVote

SpecVotes == Init /\ [][NextVotes]_vars

\* the creating requests, handled while time passes; the users are created first
NextCreating ==
    \/ CreateUser(MaxCreatingEntities - 5)
    \/ PostPapersDuring(MaxCreatingEntities, Readings(clock, 2))
    \/ PostDiscussionsDuring(MaxCreatingEntities, Readings(clock, 2))
    \/ PostGroupsDuring(MaxCreatingEntities, Readings(clock, 3))
    \/ PostGroupMembersDuring(MaxCreatingEntities, Readings(clock, 2))
    \/ PostGroupSessionsDuring(MaxCreatingEntities, Readings(clock, 1))

SpecCreating == Init /\ [][NextCreating]_vars

(***************************************************************************)
(* Properties.                                                             *)
(***************************************************************************)
StrictlyIncreasing(seq) == \A i, j \in DOMAIN seq : i < j => seq[i] < seq[j]

EntityTypes == DOMAIN hist.issued

\* C1: for every entity type, the id a create returns is strictly greater than
\* every id a create of that type returned before: the ids issued for a type, in
\* the order of the creates, are strictly increasing.
C1_CreateIdsIncrease == \A type \in EntityTypes : StrictlyIncreasing(hist.issued[type])

\* two creates of one type have run, the second being the last call
C1_Witness ==
    /\ last.op \in {"createPaper", "addStudyGroupMember", "createActivity"}
    /\ \E type \in EntityTypes :
        /\ Len(hist.issued[type]) >= 2
        /\ hist.issued[type][Len(hist.issued[type])] = last.ret.id

\* C2: an identifier is never reused, even after deletion: the id of every
\* membership row ever created, removed since or not, was issued once, so the id
\* addStudyGroupMember returns differs from the id of every earlier row.
C2_MemberIdsNeverReused ==
    LET ids == hist.issued.member
    IN \A i, j \in DOMAIN ids : i # j => ids[i] # ids[j]

\* a row was removed while it had the highest id, and a row was added afterwards
C2_Witness ==
    /\ last.op = "addStudyGroupMember"
    /\ \E k \in hist.removedTop :
        /\ ~MapHas(storage.studyGroupMembers, k)
        /\ last.ret.id > k

\* the ids of a type that no create has returned, among the ids up to the one
\* after the counter
NeverIssued(type, counter) == (1..(counter + 1)) \ Range(hist.issued[type])

\* C3: right after a create returns entity e, the get-by-id of e.id returns a
\* value equal to e; the get-by-id of an id no create has returned yields
\* undefined (getUser, getPaper, getDiscussionPost, getStudyGroup,
\* getStudySession).
C3_GetById ==
    /\ last.op = "createUser" => getUser(storage, last.ret.id) = last.ret
    /\ last.op = "createPaper" => getPaper(storage, last.ret.id) = last.ret
    /\ last.op = "createDiscussionPost" =>
           getDiscussionPost(storage, last.ret.id) = last.ret
    /\ last.op = "createStudyGroup" => getStudyGroup(storage, last.ret.id) = last.ret
    /\ last.op = "createStudySession" =>
           getStudySession(storage, last.ret.id) = last.ret
    /\ \A id \in NeverIssued("user", storage.currentUserId) :
           getUser(storage, id) = Undefined
    /\ \A id \in NeverIssued("paper", storage.currentPaperId) :
           getPaper(storage, id) = Undefined
    /\ \A id \in NeverIssued("post", storage.currentDiscussionPostId) :
           getDiscussionPost(storage, id) = Undefined
    /\ \A id \in NeverIssued("group", storage.currentStudyGroupId) :
           getStudyGroup(storage, id) = Undefined
    /\ \A id \in NeverIssued("session", storage.currentStudySessionId) :
           getStudySession(storage, id) = Undefined

\* a second paper has just been created
C3_Witness ==
    /\ last.op = "createPaper"
    /\ last.ret.id = 2
    /\ getPaper(storage, 1) # Undefined

IdsOf(entities) == [i \in DOMAIN entities |-> entities[i].id]

\* C4: a list call with no filter returns the entities of the type that were
\* created (none of the three types can be deleted), each once, in the order of
\* their creation, whatever updates were made since: the ids listed are the ids
\* issued, in order, and each listed entity is the one stored under its id.
C4_ListInCreationOrder ==
    /\ IdsOf(getPapers(storage, Undefined)) = hist.issued.paper
    /\ IdsOf(getDiscussionPosts(storage, Undefined)) = hist.issued.post
    /\ IdsOf(getStudyGroups(storage, Undefined)) = hist.issued.group
    /\ \A e \in Range(getPapers(storage, Undefined)) : getPaper(storage, e.id) = e
    /\ \A e \in Range(getDiscussionPosts(storage, Undefined)) :
           getDiscussionPost(storage, e.id) = e
    /\ \A e \in Range(getStudyGroups(storage, Undefined)) :
           getStudyGroup(storage, e.id) = e

\* two papers are listed and the first was updated after the second was created
C4_Witness ==
    /\ last.op = "incrementPaperDownloads"
    /\ last.args = <<1>>
    /\ Len(getPapers(storage, Undefined)) = 2
    /\ getPapers(storage, Undefined)[1].downloads > 0

\* the filters tried: every partial mapping of the fields to values in use
NoFields == [k \in {} |-> ""]

PaperFilters ==
    {NoFields} \cup [course : {"math", "cs"}] \cup [year : {"2023", "2024"}]
    \cup [course : {"math", "cs"}, year : {"2023", "2024"}]

PostFilters ==
    {NoFields} \cup [course : {"math", "cs"}] \cup [title : {"q", "r"}]
    \cup [course : {"math", "cs"}, title : {"q", "r"}]

GroupFilters ==
    {NoFields} \cup [course : {"math", "cs"}] \cup [creatorId : {1, 2}]
    \cup [course : {"math", "cs"}, creatorId : {1, 2}]

OneField(filters, key) == [k \in {key} |-> filters[k]]

\* `listed` maps each filter to the list returned for it, `all` is the unfiltered
\* list: each result holds, in the order of `all`, exactly the entities whose
\* fields equal every value of the filter, which are the entities returned for
\* each of its fields taken alone; the empty filter returns `all`
FilterLaw(listed, all) ==
    \A filters \in DOMAIN listed :
        /\ Range(listed[filters]) =
               {e \in Range(all) :
                    \A key \in DOMAIN filters :
                        key \in DOMAIN e /\ e[key] = filters[key]}
        /\ listed[filters] = SelectSeq(all, LAMBDA e : e \in Range(listed[filters]))
        /\ \A e \in Range(all) :
               e \in Range(listed[filters]) <=>
                   \A key \in DOMAIN filters :
                       e \in Range(listed[OneField(filters, key)])
        /\ DOMAIN filters = {} => listed[filters] = all

\* C5: getPapers, getDiscussionPosts and getStudyGroups called with a filter
\* return exactly the stored entities of which every filter field equals the
\* given value; a filter of several fields returns the intersection of the
\* results of its single-field filters, and an empty filter returns all.
C5_FilteredLists ==
    /\ FilterLaw([f \in PaperFilters |-> getPapers(storage, f)],
                 getPapers(storage, Undefined))
    /\ FilterLaw([f \in PostFilters |-> getDiscussionPosts(storage, f)],
                 getDiscussionPosts(storage, Undefined))
    /\ FilterLaw([f \in GroupFilters |-> getStudyGroups(storage, f)],
                 getStudyGroups(storage, Undefined))

\* a filter of two fields keeps one of two papers although one of its fields
\* alone keeps both
C5_Witness ==
    \E f \in PaperFilters :
        /\ DOMAIN f = {"course", "year"}
        /\ Len(getPapers(storage, f)) = 1
        /\ \E key \in DOMAIN f : Len(getPapers(storage, OneField(f, key))) = 2

\* C6: a paper's downloads counter is 0 at creation, is never negative, and is
\* raised by 1 by each incrementPaperDownloads call on the paper and by nothing
\* else: after N such calls the stored paper, and getPaper, report N.
C6_DownloadsCountCalls ==
    /\ last.op = "createPaper" => last.ret.downloads = 0
    /\ \A i \in DOMAIN storage.papers :
        LET e == storage.papers[i]
        IN /\ e.val.downloads >= 0
           /\ e.val.downloads = Count(hist.incCalls, e.key)
           /\ getPaper(storage, e.key).downloads = Count(hist.incCalls, e.key)
    /\ (last.op = "incrementPaperDownloads" /\ MapHas(storage.papers, last.args[1])) =>
           last.ret.downloads = Count(hist.incCalls, last.args[1])

\* a paper has been incremented twice
C6_Witness ==
    /\ last.op = "incrementPaperDownloads"
    /\ MapHas(storage.papers, last.args[1])
    /\ Count(hist.incCalls, last.args[1]) = 2
    /\ getPaper(storage, last.args[1]).downloads = 2

\* the Map a counter operation works on
CounterTarget(s, op) ==
    CASE op = "incrementPaperDownloads" -> s.papers
      [] op = "voteDiscussionPost" -> s.discussionPosts
      [] op = "voteDiscussionReply" -> s.discussionReplies

CounterOps == {"incrementPaperDownloads", "voteDiscussionPost", "voteDiscussionReply"}

\* C7: a counter operation (incrementPaperDownloads, voteDiscussionPost,
\* voteDiscussionReply) called with an id that does not exist returns undefined
\* and leaves every collection and every id counter of the store unchanged.
C7_MissingIdChangesNothing ==
    [][(/\ last'.op \in CounterOps
        /\ clock' = clock
        /\ ~MapHas(CounterTarget(storage, last'.op), last'.args[1]))
       => (last'.ret = Undefined /\ storage' = storage)]_vars

\* a vote on a reply that does not exist has returned undefined, in a store that
\* holds entities
C7_Witness ==
    /\ last.op = "voteDiscussionReply"
    /\ last.ret = Undefined
    /\ Len(storage.discussionPosts) > 0

\* C8: the votes of a discussion post or reply equal its votes at creation (0) plus
\* the sum of the values of the vote calls made on it, whatever their order and
\* with no lower bound; so a +1 vote followed by a -1 vote restores the count.
C8_VotesAreSumOfValues ==
    /\ \A i \in DOMAIN storage.discussionPosts :
        storage.discussionPosts[i].val.votes =
            Count(hist.postVotes, storage.discussionPosts[i].key)
    /\ \A i \in DOMAIN storage.discussionReplies :
        storage.discussionReplies[i].val.votes =
            Count(hist.replyVotes, storage.discussionReplies[i].key)

\* a -1 vote has brought a post back to 0 votes
C8_Witness ==
    /\ last.op = "voteDiscussionPost"
    /\ last.args[2] = -1
    /\ MapHas(storage.discussionPosts, last.args[1])
    /\ getDiscussionPost(storage, last.args[1]).votes = 0

Without(seq, i) == SubSeq(seq, 1, i - 1) \o SubSeq(seq, i + 1, Len(seq))

\* the entries of the membership Map for a (groupId, userId) pair
RowsOf(s, groupId, userId) ==
    {i \in DOMAIN s.studyGroupMembers :
         /\ s.studyGroupMembers[i].val.groupId = groupId
         /\ s.studyGroupMembers[i].val.userId = userId}

\* C9: removeStudyGroupMember(groupId, userId) returns false and leaves the store
\* unchanged when no membership row has that pair; otherwise it returns true and
\* removes exactly one row of that pair, every other row and collection unchanged.
C9_RemoveExactlyOne ==
    [][(last'.op = "removeStudyGroupMember" /\ clock' = clock) =>
          LET hits == RowsOf(storage, last'.args[1], last'.args[2])
          IN IF hits = {}
             THEN last'.ret = FALSE /\ storage' = storage
             ELSE /\ last'.ret = TRUE
                  /\ \E i \in hits :
                         storage' = [storage EXCEPT
                                         !.studyGroupMembers = Without(@, i)]]_vars

\* a removal has returned true and another row of the same pair is still stored
C9_Witness ==
    /\ last.op = "removeStudyGroupMember"
    /\ last.ret = TRUE
    /\ RowsOf(storage, last.args[1], last.args[2]) # {}

\* the rows of group e are the one row of its creator, an admin
OnlyCreatorRow(s, group) ==
    LET rows == getStudyGroupMembers(s, group.id)
    IN /\ Len(rows) = 1
       /\ rows[1].userId = group.creatorId
       /\ rows[1].isAdmin = TRUE

\* C10, as claimed: a study group created with creator U has, until another
\* membership operation on it, exactly one membership row, for U with isAdmin true.
C10_CreatorIsFirstMember ==
    \A i \in DOMAIN storage.studyGroups :
        storage.studyGroups[i].key \notin hist.touched =>
            OnlyCreatorRow(storage, storage.studyGroups[i].val)

\* C10, amended: a study group created by POST /api/groups has, as long as no
\* direct addStudyGroupMember or removeStudyGroupMember changed the rows of its id,
\* exactly one membership row, for the requesting user with isAdmin true; a group
\* created by createStudyGroup alone has no membership row.
C10_RouteAddsCreator ==
    \A i \in DOMAIN storage.studyGroups :
        LET e == storage.studyGroups[i]
        IN e.key \notin hist.touched =>
            IF hist.groupVia[e.key] = "route"
            THEN OnlyCreatorRow(storage, e.val)
            ELSE getStudyGroupMembers(storage, e.val.id) = <<>>

\* POST /api/groups has just answered 201 for a group whose rows nothing else changed
C10_Witness ==
    /\ last.op = "POST /api/groups"
    /\ last.ret.status = "201"
    /\ last.ret.body.id \notin hist.touched
    /\ Len(getStudyGroupMembers(storage, last.ret.body.id)) = 1

\* the step is an addStudyGroupMember call
AddStep ==
    /\ last'.op = "addStudyGroupMember"
    /\ storage'.currentStudyGroupMemberId = storage.currentStudyGroupMemberId + 1

\* the step is the removeStudyGroupMember call for the pair that the call before
\* it, an addStudyGroupMember, added
RemoveAfterAddStep ==
    /\ last.op = "addStudyGroupMember"
    /\ last'.op = "removeStudyGroupMember"
    /\ last'.args = <<last.args[1].groupId, last.args[1].userId>>

\* the rows of the group without the row the add returned: the list the group
\* had before the add, given that the add appended that row
BeforeAdd(s, added) ==
    SelectSeq(getStudyGroupMembers(s, added.groupId), LAMBDA row : row.id # added.id)

UserIds == {1, 2}

\* C12: getUpcomingStudySessions(userId) evaluated at time `now` returns exactly
\* the stored sessions of the groups the user has a membership row for whose
\* startTime is strictly later than now, each once, in ascending order of
\* startTime.
C12_UpcomingSessions ==
    \A userId \in UserIds :
        LET r == getUpcomingStudySessions(storage, userId, clock)
            rows == Range(MapValues(storage.studyGroupMembers))
        IN /\ Range(r) =
                  {x \in Range(MapValues(storage.studySessions)) :
                       /\ \E row \in rows : row.userId = userId /\ row.groupId = x.groupId
                       /\ x.startTime > clock}
           /\ Cardinality(Range(r)) = Len(r)
           /\ \A i, j \in DOMAIN r : i < j => r[i].startTime <= r[j].startTime

\* two sessions are returned in the reverse of their creation order, while a
\* session of the same group that has started is left out
C12_Witness ==
    \E userId \in UserIds :
        LET r == getUpcomingStudySessions(storage, userId, clock)
        IN /\ Len(r) = 2
           /\ r[1].id > r[2].id
           /\ r[1].startTime < r[2].startTime
           /\ \E x \in Range(MapValues(storage.studySessions)) :
                  /\ x.groupId = r[1].groupId
                  /\ x.startTime <= clock

\* the step is a caller's write to an object it was handed, not a store call
InPlaceStep == last'.op = "assign in place"

\* C13: the values returned by create, get and list operations are snapshots: a
\* caller's write to a field of a returned entity, made without a store update
\* operation, changes no value a later read returns.
C13_ReturnedValuesAreSnapshots ==
    [][InPlaceStep =>
          /\ \A id \in ArgIds(storage.currentUserId) :
                 getUser(storage', id) = getUser(storage, id)
          /\ \A id \in ArgIds(storage.currentPaperId) :
                 getPaper(storage', id) = getPaper(storage, id)
          /\ getPapers(storage', Undefined) = getPapers(storage, Undefined)
      ]_vars

\* a paper that no incrementPaperDownloads call was made on is read with
\* downloads 7, the value a caller wrote to the object createPaper returned
C13_Witness ==
    /\ last.op = "getPaper"
    /\ last.ret # Undefined
    /\ last.ret.downloads = 7
    /\ Count(hist.incCalls, last.args[1]) = 0

\* C14: the activity log is append-only: the only change ever made to the
\* activity collection is one new entry added at its end, under the next id, by
\* createActivity (called directly or by a route handler); every entry already
\* stored stays, with all its fields as they were.
C14_ActivityLogAppendOnly ==
    [][storage'.activities # storage.activities =>
          /\ last'.op \in {"createActivity", "POST /api/groups"}
          /\ Len(storage'.activities) = Len(storage.activities) + 1
          /\ SubSeq(storage'.activities, 1, Len(storage.activities)) = storage.activities
          /\ LET e == storage'.activities[Len(storage'.activities)]
             IN /\ e.key = storage.currentActivityId
                /\ e.val.id = e.key
                /\ e.val.createdAt = clock
                /\ ~MapHas(storage.activities, e.key)
      ]_vars

\* the log holds an entry written by POST /api/groups and, after it, the entry
\* that a createActivity call has just written
C14_Witness ==
    /\ last.op = "createActivity"
    /\ Len(storage.activities) >= 2
    /\ storage.activities[1].val.type = "group_created"
    /\ storage.activities[Len(storage.activities)].val = last.ret

\* the Map that holds the entities of a type
CollectionOf ==
    [user |-> "users", paper |-> "papers", post |-> "discussionPosts",
     reply |-> "discussionReplies", group |-> "studyGroups",
     session |-> "studySessions", activity |-> "activities"]

\* C15: every user, paper, discussion post, reply, study group, study session and
\* activity is permanent: once a create has returned it with id i, its collection
\* holds an entity under i after every later step; membership rows are the only
\* entities that disappear, and only in a removeStudyGroupMember call.
C15_EntitiesArePermanent ==
    [][/\ \A type \in DOMAIN CollectionOf :
             \A id \in Range(hist'.issued[type]) :
                 MapHas(storage'[CollectionOf[type]], id)
       /\ (\E k \in Range(MapKeys(storage.studyGroupMembers)) :
               ~MapHas(storage'.studyGroupMembers, k))
              => last'.op = "removeStudyGroupMember"
      ]_vars

\* a membership row has just been removed, while a paper created before it and
\* updated since is still stored
C15_Witness ==
    /\ last.op = "removeStudyGroupMember"
    /\ last.ret = TRUE
    /\ storage.studyGroupMembers = <<>>
    /\ MapHas(storage.papers, 1)
    /\ getPaper(storage, 1).downloads > 0

\* C16: store operations are not interleaved: when several incrementPaperDownloads
\* calls, or several voteDiscussionPost calls, on one existing entity are in
\* flight together, no update is lost: once all have completed, the counter has
\* changed by one per increment call, and by the sum of the values voted.
C16_NoLostUpdate ==
    loop.micro = <<>> =>
        /\ \A i \in DOMAIN storage.papers :
               storage.papers[i].val.downloads =
                   Count(hist.incCalls, storage.papers[i].key)
        /\ \A i \in DOMAIN storage.discussionPosts :
               storage.discussionPosts[i].val.votes =
                   Count(hist.postVotes, storage.discussionPosts[i].key)

\* two incrementPaperDownloads calls on a stored paper have completed and its
\* downloads counter is 1
C16_Witness ==
    /\ loop.micro = <<>>
    /\ last.op = "incrementPaperDownloads"
    /\ MapHas(storage.papers, last.args[1])
    /\ Count(hist.incCalls, last.args[1]) = 2
    /\ getPaper(storage, last.args[1]).downloads = 1

\* a stored user has the username or the email of the body, ignoring case
Taken(s, body) ==
    \E u \in Range(MapValues(s.users)) :
        \/ ToLowerCase(u.username) = ToLowerCase(body.username)
        \/ ToLowerCase(u.email) = ToLowerCase(body.email)

IsRejection(response) == "error" \in DOMAIN response.body

\* no two stored users have the same username or the same email, ignoring case
UniqueIgnoringCase(s) ==
    \A i, j \in DOMAIN s.users :
        i # j =>
            /\ ToLowerCase(s.users[i].val.username) # ToLowerCase(s.users[j].val.username)
            /\ ToLowerCase(s.users[i].val.email) # ToLowerCase(s.users[j].val.email)

\* the step is the arrival of a registration request
RegisterBeginStep == last'.op \in RegisterRoutes /\ Len(loop'.io) >= Len(loop.io)

\* the step is the resumption of a suspended registration
RegisterResumeStep == Len(loop'.io) < Len(loop.io)

\* C17: through POST /api/register and POST /api/direct-register, a request that
\* arrives while no other registration is in flight and whose username or email
\* equals a stored user's ignoring case is rejected, creates no user and consumes
\* no id; as long as no registration passed its checks while another was in
\* flight, usernames and emails are unique ignoring case.
C17_SequentialRegistrationsUnique ==
    [][/\ (RegisterBeginStep /\ loop.io = <<>> /\ Taken(storage, last'.args[1])) =>
              (IsRejection(last'.ret) /\ storage' = storage /\ loop' = loop)
       /\ ~hist'.raced => UniqueIgnoringCase(storage')
      ]_vars

\* with one user stored and no registration in flight, a request with that
\* user's username in another case has been rejected
C17_Witness ==
    /\ last.op \in RegisterRoutes
    /\ IsRejection(last.ret)
    /\ loop.io = <<>>
    /\ ~hist.raced
    /\ Len(storage.users) = 1
    /\ last.args[1].username # storage.users[1].val.username
    /\ ToLowerCase(last.args[1].username) = ToLowerCase(storage.users[1].val.username)
    /\ storage.currentUserId = 2

\* C18: the existence checks and createUser are not atomic: a registration that
\* passed its checks creates its user when it is resumed, whatever users were
\* stored in between; so two concurrent requests with one username both create a
\* user, and a state with two stored users of one username is reachable.
C18_CheckThenActRace ==
    [][RegisterResumeStep =>
          \E i \in DOMAIN loop.io :
              /\ loop'.io = Without(loop.io, i)
              /\ Len(storage'.users) = Len(storage.users) + 1
              /\ SubSeq(storage'.users, 1, Len(storage.users)) = storage.users
              /\ LET e == storage'.users[Len(storage'.users)]
                 IN /\ e.key = storage.currentUserId
                    /\ e.val.username = loop.io[i].body.username
                    /\ e.val.email = loop.io[i].body.email
      ]_vars

\* two stored users have the same username and the same email
C18_Witness ==
    \E i, j \in DOMAIN storage.users :
        /\ i < j
        /\ storage.users[i].val.username = storage.users[j].val.username
        /\ storage.users[i].val.email = storage.users[j].val.email
        /\ hist.raced

\* C19: getUserStudyGroups(userId) returns exactly the stored study groups that
\* at least one membership row of the user names, each once however many rows
\* name it, in the order the groups were created; a row whose groupId matches no
\* stored group adds nothing.
C19_UserStudyGroups ==
    \A userId \in UserIds :
        LET r == getUserStudyGroups(storage, userId)
            all == MapValues(storage.studyGroups)
            rows == Range(MapValues(storage.studyGroupMembers))
        IN /\ Range(r) =
                  {g \in Range(all) :
                       \E row \in rows : row.userId = userId /\ row.groupId = g.id}
           /\ r = SelectSeq(all, LAMBDA g : g \in Range(r))
           /\ StrictlyIncreasing(IdsOf(r))

\* a user has two membership rows for a stored group and a row for a group that
\* is not stored, and the one stored group is returned once
C19_Witness ==
    \E userId \in UserIds :
        /\ Len(getUserStudyGroups(storage, userId)) = 1
        /\ Cardinality(RowsOf(storage, getUserStudyGroups(storage, userId)[1].id,
                               userId)) = 2
        /\ \E row \in Range(MapValues(storage.studyGroupMembers)) :
               row.userId = userId /\ ~MapHas(storage.studyGroups, row.groupId)

\* `full` holds exactly the activities `wanted`, newest first
NewestFirstOf(full, wanted) ==
    /\ Range(full) = wanted
    /\ Len(full) = Cardinality(wanted)
    /\ \A i, j \in DOMAIN full : i < j => full[i].createdAt >= full[j].createdAt

\* `r`, returned for the limit, is `full` cut to its first limit[1] entries
CutTo(r, full, limit) ==
    /\ r = SubSeq(full, 1, IF limit[1] < Len(full) THEN limit[1] ELSE Len(full))
    /\ Len(r) <= limit[1]

\* the feeds with the limits in `limits`: without a limit, all activities (of the
\* user) newest first; with a limit, the first `limit` entries of that list
FeedLaw(limits) ==
    LET stored == Range(MapValues(storage.activities))
    IN /\ NewestFirstOf(getRecentActivities(storage, <<>>), stored)
       /\ \A userId \in UserIds :
              NewestFirstOf(getUserActivities(storage, userId, <<>>),
                            {a \in stored : a.userId = userId})
       /\ \A limit \in limits \ {<<>>} :
              /\ CutTo(getRecentActivities(storage, limit),
                       getRecentActivities(storage, <<>>), limit)
              /\ \A userId \in UserIds :
                     CutTo(getUserActivities(storage, userId, limit),
                           getUserActivities(storage, userId, <<>>), limit)

\* C20: getRecentActivities(limit) and getUserActivities(userId, limit) return the
\* activities (of the user) sorted by descending createdAt, and for every limit
\* supplied, 0 included, the first `limit` entries of that ordering and never more
\* than `limit` entries.
C20_FeedsCutToLimit == FeedLaw(Limits)

\* what holds of the code: the same for every limit other than 0
FeedsCutToNonZeroLimit == FeedLaw(Limits \ {<<0>>})

\* activities are stored and the feeds called with limit 0 return all of them
C20_Witness ==
    /\ Len(storage.activities) >= 2
    /\ getRecentActivities(storage, <<0>>) = getRecentActivities(storage, <<>>)
    /\ \E userId \in UserIds :
           Len(getUserActivities(storage, userId, <<0>>)) >= 1

\* the create call of each entity type: its name, its Map and its counter
CreateOf ==
    [user |-> [op |-> "createUser", map |-> "users", counter |-> "currentUserId"],
     paper |-> [op |-> "createPaper", map |-> "papers", counter |-> "currentPaperId"],
     post |-> [op |-> "createDiscussionPost", map |-> "discussionPosts",
               counter |-> "currentDiscussionPostId"],
     reply |-> [op |-> "createDiscussionReply", map |-> "discussionReplies",
                counter |-> "currentDiscussionReplyId"],
     group |-> [op |-> "createStudyGroup", map |-> "studyGroups",
                counter |-> "currentStudyGroupId"],
     member |-> [op |-> "addStudyGroupMember", map |-> "studyGroupMembers",
                 counter |-> "currentStudyGroupMemberId"],
     session |-> [op |-> "createStudySession", map |-> "studySessions",
                  counter |-> "currentStudySessionId"],
     activity |-> [op |-> "createActivity", map |-> "activities",
                   counter |-> "currentActivityId"]]

\* C21: each entity type has its own identifier counter: a create of one type
\* advances the counter of its type by one, adds one entry to the Map of its
\* type, and leaves every other Map and every other counter unchanged; the id
\* it returns is one more than the number of creates of its own type made before,
\* however many entities of other types were created.
C21_CreateTouchesOwnTypeOnly ==
    [][\A type \in DOMAIN CreateOf :
          (last'.op = CreateOf[type].op /\ hist'.issued[type] # hist.issued[type]) =>
              LET c == CreateOf[type]
              IN /\ \A field \in (DOMAIN storage) \ {c.map, c.counter} :
                        storage'[field] = storage[field]
                 /\ storage'[c.counter] = storage[c.counter] + 1
                 /\ Len(storage'[c.map]) = Len(storage[c.map]) + 1
                 /\ last'.ret.id = Len(hist.issued[type]) + 1
      ]_vars

\* the first activity has been created after an entity of another type
C21_Witness ==
    /\ last.op = "createActivity"
    /\ last.ret.id = 1
    /\ TotalCreated(storage) = 2

\* the step is a DELETE /api/groups/:groupId/members/:userId request
DeleteStep == last'.op = "DELETE /api/groups/:groupId/members/:userId"

\* C22: the membership row of a (groupId, userId) pair is unique, so a successful
\* removal ends the membership: when DELETE /api/groups/G/members/U answers 204
\* (removeStudyGroupMember(G, U) returned true), getStudyGroupMembers(G) holds no
\* row of user U and getUserStudyGroups(U) does not hold G, whatever join
\* requests came before.
C22_RemovalEndsMembership ==
    [][(DeleteStep /\ last'.ret.status = "204") =>
          LET G == last'.args[1].params.groupId
              U == last'.args[1].params.userId
          IN /\ \A row \in Range(getStudyGroupMembers(storage', G)) : row.userId # U
             /\ \A group \in Range(getUserStudyGroups(storage', U)) : group.id # G
      ]_vars

\* after two accepted join requests for one pair, a removal of the pair has been
\* answered 204, and the user is still listed as a member of the stored group
C22_Witness ==
    /\ last.op = "DELETE /api/groups/:groupId/members/:userId"
    /\ last.ret.status = "204"
    /\ LET G == last.args[1].params.groupId
           U == last.args[1].params.userId
       IN /\ \E row \in Range(getStudyGroupMembers(storage, G)) : row.userId = U
          /\ \E group \in Range(getUserStudyGroups(storage, U)) : group.id = G

\* the requester has a membership row in the group that makes the requester an admin
IsAdminMember(s, groupId, user) ==
    \E row \in Range(getStudyGroupMembers(s, groupId)) :
        row.userId = user.id /\ FieldIsTrue(row, "isAdmin")

\* C23: DELETE /api/groups/:groupId/members/:userId removes a membership row only
\* if the authenticated requester is the user being removed or is an admin member
\* of the group, and then removes one row of that pair and answers 204; an
\* authenticated requester who is neither is answered 403 and the store is
\* unchanged.
C23_RemovalIsAuthorized ==
    [][DeleteStep =>
          LET req == last'.args[1]
              G == req.params.groupId
              U == req.params.userId
              allowed == /\ req.user # Undefined
                         /\ (U = req.user.id \/ IsAdminMember(storage, G, req.user))
          IN /\ storage' # storage =>
                    /\ allowed
                    /\ last'.ret.status = "204"
                    /\ \E i \in RowsOf(storage, G, U) :
                           storage' = [storage EXCEPT !.studyGroupMembers = Without(@, i)]
             /\ (req.user # Undefined /\ ~allowed) =>
                    (last'.ret.status = "403" /\ storage' = storage)
      ]_vars

\* a requester with a membership row in the group has removed the row of another
\* user
C23_Witness ==
    /\ last.op = "DELETE /api/groups/:groupId/members/:userId"
    /\ last.ret.status = "204"
    /\ last.args[1].params.userId # last.args[1].user.id
    /\ RowsOf(storage, last.args[1].params.groupId, last.args[1].user.id) # {}

\* the step is a POST /api/groups/:id/sessions request
SessionRouteStep == last'.op = "POST /api/groups/:id/sessions"

\* C24: POST /api/groups/:id/sessions stores a session only when the group exists
\* and the authenticated requester has a membership row in it when the request is
\* handled; an authenticated request for a group that does not exist is answered
\* 404 and one of a requester without a row 403, and neither creates a session
\* or an activity.  A stored session is appended with createdBy the requester and
\* groupId the route's group, whatever the body names, every session stored
\* before staying as it was.
C24_SessionsByMembersOnly ==
    [][SessionRouteStep =>
          LET req == last'.args[1]
              G == req.params.id
              exists == MapHas(storage.studyGroups, G)
              member == /\ req.user # Undefined
                        /\ \E row \in Range(getStudyGroupMembers(storage, G)) :
                               row.userId = req.user.id
          IN /\ storage'.studySessions # storage.studySessions =>
                    /\ exists /\ member
                    /\ Len(storage'.studySessions) = Len(storage.studySessions) + 1
                    /\ SubSeq(storage'.studySessions, 1, Len(storage.studySessions))
                           = storage.studySessions
                    /\ LET e == storage'.studySessions[Len(storage'.studySessions)]
                       IN /\ e.val.createdBy = req.user.id
                          /\ e.val.groupId = G
                          /\ e.val = last'.ret.body
             /\ (req.user # Undefined /\ ~(exists /\ member)) =>
                    /\ last'.ret.status = (IF exists THEN "403" ELSE "404")
                    /\ storage' = storage
      ]_vars

\* a member's request whose body names another group and another creator has
\* been answered 201 with a session of the route's group created by the requester
C24_Witness ==
    /\ last.op = "POST /api/groups/:id/sessions"
    /\ last.ret.status = "201"
    /\ "createdBy" \in DOMAIN last.args[1].body.data
    /\ last.args[1].body.data.createdBy # last.args[1].user.id
    /\ last.args[1].body.data.groupId # last.args[1].params.id
    /\ getStudySession(storage, last.ret.body.id).createdBy = last.args[1].user.id
    /\ getStudySession(storage, last.ret.body.id).groupId = last.args[1].params.id

\* the Map a vote route works on
VoteRouteTarget ==
    [k \in {"POST /api/discussions/:id/vote", "POST /api/discussions/replies/:id/vote"} |->
        IF k = "POST /api/discussions/:id/vote"
        THEN "discussionPosts" ELSE "discussionReplies"]

\* C25: the vote routes accept an authenticated request only when its value is
\* the number 1 or the number -1: any other value (another number, the string
\* "1", no value) is answered 400 and the store is unchanged; an accepted request
\* for a stored post or reply adds the value to the votes of that post or reply,
\* every other field, entity and counter as before, and one for an id that is not
\* stored is answered 404 and changes nothing.
C25_VoteValueIsPlusOrMinusOne ==
    [][last'.op \in DOMAIN VoteRouteTarget =>
          LET req == last'.args[1]
              id == req.params.id
              value == req.body.value
              map == VoteRouteTarget[last'.op]
          IN /\ storage' # storage => (value = Num(1) \/ value = Num(-1))
             /\ req.user # Undefined =>
                    IF value # Num(1) /\ value # Num(-1)
                    THEN last'.ret.status = "400" /\ storage' = storage
                    ELSE IF ~MapHas(storage[map], id)
                    THEN last'.ret.status = "404" /\ storage' = storage
                    ELSE LET old == MapGet(storage[map], id)
                         IN /\ last'.ret.status = "200"
                            /\ storage' =
                                   [storage EXCEPT
                                        ![map] = MapSet(@, id,
                                                        [old EXCEPT !.votes = @ + value.num])]
      ]_vars

\* a vote of the string "1" has been answered 400 on a post that holds an
\* accepted vote, and the post still has that one vote
C25_Witness ==
    /\ last.op = "POST /api/discussions/:id/vote"
    /\ last.ret.status = "400"
    /\ last.args[1].body.value = Str("1")
    /\ MapHas(storage.discussionPosts, last.args[1].params.id)
    /\ Count(hist.postVotes, last.args[1].params.id) = 1
    /\ getDiscussionPost(storage, last.args[1].params.id).votes = 1

\* the creating routes: the Map of the entity created, the field that holds its
\* creation time ("" when it has none), and the activity logged for it
CreatingRoutes ==
    ("POST /api/papers" :>
         [map |-> "papers", stamp |-> "uploadDate",
          type |-> "paper_upload", targetType |-> "paper"])
    @@ ("POST /api/discussions" :>
         [map |-> "discussionPosts", stamp |-> "createdAt",
          type |-> "post_created", targetType |-> "discussion_post"])
    @@ ("POST /api/groups" :>
         [map |-> "studyGroups", stamp |-> "createdAt",
          type |-> "group_created", targetType |-> "study_group"])
    @@ ("POST /api/groups/:id/members" :>
         [map |-> "studyGroupMembers", stamp |-> "joinedAt",
          type |-> "group_joined", targetType |-> "study_group"])
    @@ ("POST /api/groups/:id/sessions" :>
         [map |-> "studySessions", stamp |-> "",
          type |-> "session_created", targetType |-> "study_session"])

\* the value stored last in a Map
Newest(m) == m[Len(m)].val

\* C26: each creating request answered 201 (POST /api/papers, /api/discussions,
\* /api/groups, /api/groups/:id/members, /api/groups/:id/sessions) stores one
\* entity and appends exactly one activity, written no earlier than the entity,
\* whose targetId is the id of the paper, post, group or session just created
\* (the joined group's id for a member join).  POST /api/groups stores the group,
\* then the creator's membership, then the activity.  A request that is rejected
\* stores nothing.
C26_OneActivityPerCreation ==
    [][last'.op \in DOMAIN CreatingRoutes =>
          LET req == last'.args[1]
              c == CreatingRoutes[last'.op]
              e == last'.ret.body
              a == Newest(storage'.activities)
          IN IF last'.ret.status # "201"
             THEN storage' = storage
             ELSE /\ Len(storage'.activities) = Len(storage.activities) + 1
                  /\ SubSeq(storage'.activities, 1, Len(storage.activities))
                         = storage.activities
                  /\ Len(storage'[c.map]) = Len(storage[c.map]) + 1
                  /\ ~MapHas(storage[c.map], e.id)
                  /\ MapGet(storage'[c.map], e.id) = e
                  /\ a.type = c.type /\ a.targetType = c.targetType
                  /\ a.targetId = IF last'.op = "POST /api/groups/:id/members"
                                  THEN req.params.id ELSE e.id
                  /\ c.stamp # "" => e[c.stamp] <= a.createdAt
                  /\ last'.op = "POST /api/groups" =>
                         LET row == Newest(storage'.studyGroupMembers)
                         IN /\ Len(storage'.studyGroupMembers)
                                   = Len(storage.studyGroupMembers) + 1
                            /\ row.groupId = e.id
                            /\ row.userId = req.user.id
                            /\ e.createdAt <= row.joinedAt
                            /\ row.joinedAt <= a.createdAt
      ]_vars

\* POST /api/groups has been answered 201, and time passed between the store of
\* the creator's membership and the store of the activity, which names the group
C26_Witness ==
    /\ last.op = "POST /api/groups"
    /\ last.ret.status = "201"
    /\ Newest(storage.studyGroupMembers).groupId = last.ret.body.id
    /\ Newest(storage.activities).targetId = last.ret.body.id
    /\ Newest(storage.studyGroupMembers).joinedAt < Newest(storage.activities).createdAt

\* the Maps of the store
StoreMaps ==
    {"users", "papers", "discussionPosts", "discussionReplies", "studyGroups",
     "studyGroupMembers", "studySessions", "activities"}

\* C27: in every reachable state of the store, in every collection, the id field
\* of each stored entity is the key it is stored under, updateUser with any
\* partial user among the operations.
C27_IdEqualsKey ==
    \A name \in StoreMaps : \A e \in Range(storage[name]) : e.val.id = e.key

\* updateUser was called with a partial user that carries an id, and the user now
\* stored under the key of the call has another id
C27_Witness ==
    /\ last.op = "updateUser"
    /\ last.ret # Undefined
    /\ "id" \in DOMAIN last.args[2]
    /\ MapGet(storage.users, last.args[1]) = last.ret
    /\ last.ret.id # last.args[1]

\* per create: the Map it stores into, its counter, and the field it starts at 0
AssigningCreates ==
    ("createUser" :> [map |-> "users", counter |-> "currentUserId", zero |-> "points"])
    @@ ("createPaper" :>
            [map |-> "papers", counter |-> "currentPaperId", zero |-> "downloads"])
    @@ ("createDiscussionPost" :>
            [map |-> "discussionPosts", counter |-> "currentDiscussionPostId",
             zero |-> "votes"])
    @@ ("createDiscussionReply" :>
            [map |-> "discussionReplies", counter |-> "currentDiscussionReplyId",
             zero |-> "votes"])

\* C28: whatever its input contains, createUser returns and stores a user with
\* points 0, createPaper a paper with downloads 0, createDiscussionPost and
\* createDiscussionReply an entity with votes 0, and the id of the entity is the
\* value the store's counter had when the create was called, not an id of the
\* input.
C28_StoreAssignedFields ==
    [][last'.op \in DOMAIN AssigningCreates =>
          LET c == AssigningCreates[last'.op]
              entity == last'.ret
          IN /\ entity.id = storage[c.counter]
             /\ entity[c.zero] = 0
             /\ MapGet(storage'[c.map], storage[c.counter]) = entity]_vars

\* createUser was called with an input that carries an id and points other than
\* 0, and the user it returned and stored has points 0 and another id
C28_Witness ==
    /\ last.op = "createUser"
    /\ {"id", "points"} \subseteq DOMAIN last.args[1]
    /\ last.args[1].points # 0
    /\ last.ret.points = 0
    /\ last.ret.id # last.args[1].id
    /\ MapGet(storage.users, last.ret.id) = last.ret

\* C29: in every state reached by requests to the routes, the groupId of each
\* membership row and of each study session is the id of a stored study group,
\* and the postId of each reply is the id of a stored discussion post.
C29_RouteCreatedReferencesExist ==
    /\ \A e \in Range(storage.studyGroupMembers) :
           MapHas(storage.studyGroups, e.val.groupId)
    /\ \A e \in Range(storage.studySessions) :
           MapHas(storage.studyGroups, e.val.groupId)
    /\ \A e \in Range(storage.discussionReplies) :
           MapHas(storage.discussionPosts, e.val.postId)

\* a join request whose body names a group the store does not hold was answered
\* 201, and the row it created has the groupId of the path
C29_Witness ==
    /\ last.op = "POST /api/groups/:id/members"
    /\ last.ret.status = "201"
    /\ "groupId" \in DOMAIN last.args[1].body.data
    /\ ~MapHas(storage.studyGroups, last.args[1].body.data.groupId)
    /\ last.ret.body.groupId = last.args[1].params.id

\* the routes behind isAuthenticated that write to the store
GuardedRoutes ==
    DOMAIN CreatingRoutes
    \cup {"POST /api/discussions/:id/replies", "POST /api/discussions/:id/vote",
          "POST /api/discussions/replies/:id/vote",
          "DELETE /api/groups/:groupId/members/:userId"}

\* C30: a request that is not authenticated changes the store in two ways only.
\* A registration request adds one user and nothing else; POST
\* /api/papers/:id/download adds 1 to the downloads of one paper and nothing else;
\* every route that creates a paper, post, reply, study group, membership, study
\* session or activity, casts a vote or removes a member answers 401 and leaves
\* the store as it was.
C30_UnauthenticatedWrites ==
    [][/\ (last'.op \in GuardedRoutes /\ last'.args[1].user = Undefined) =>
              /\ last'.ret.status = "401"
              /\ storage' = storage
       /\ (last'.op = "POST /api/papers/:id/download" /\ last'.args[1].user = Undefined) =>
              \/ storage' = storage
              \/ \E i \in DOMAIN storage.papers :
                     storage' = [storage EXCEPT !.papers[i].val.downloads = @ + 1]
       /\ last'.op \in RegisterRoutes =>
              \/ storage' = storage
              \/ /\ storage' = [storage EXCEPT !.users = storage'.users,
                                                !.currentUserId = @ + 1]
                 /\ \E user \in Range(MapValues(storage'.users)) :
                        storage'.users =
                            Append(storage.users,
                                   [key |-> storage.currentUserId, val |-> user])]_vars

\* a vote for a stored reply, sent without authentication, was answered 401, in a
\* store whose paper has been downloaded and which holds a registered user
C30_Witness ==
    /\ last.op = "POST /api/discussions/replies/:id/vote"
    /\ last.args[1].user = Undefined
    /\ MapHas(storage.discussionReplies, last.args[1].params.id)
    /\ last.ret.status = "401"
    /\ \E e \in Range(storage.papers) : e.val.downloads > 0
    /\ storage.users # <<>>

====
